---------------------------- MODULE Spec2Model ----------------------------
(***************************************************************************)
(* A model of the ParallelIO write path.                                   *)
(*                                                                         *)
(*   Part I   pio_swapm, the point-to-point all-to-all exchange of         *)
(*            src/pio/pio_spmd.c, run by NProcs ranks over a model of the  *)
(*            MPI point-to-point operations it calls.                      *)
(*   Part II  PIOc_write_darray / PIOc_write_darray_multi /                *)
(*            PIOc_read_darray of src/src/clib/pio_darray.c, run by the    *)
(*            compute tasks of one IO system on one file.                  *)
(*   Part III the step-list loop of pio_swapm for communicators of any     *)
(*            size, and pio_fc_gather, of src/pio/pio_spmd.c.              *)
(*                                                                         *)
(* The parts have their own specifications (SpecSwapm and SpecSwapmErr;    *)
(* Spec, SpecApi, SpecAsync and SpecLimit; SpecPair and SpecGather); the   *)
(* variables of the other parts stay at their initial value.               *)
(***************************************************************************)
EXTENDS Integers, Sequences, FiniteSets, TLC

(***************************************************************************)
(*                     Part I : pio_swapm                                  *)
(***************************************************************************)

\* Number of ranks of the communicator (bound of the model).
NProcs == 4

\* Largest number of elements one rank sends to one peer (bound).
MaxLen == 2

Procs == 0 .. (NProcs - 1)

VARIABLES
    handshake,      \* argument: receiver announces readiness before the data
    isend,          \* argument: use non-blocking sends
    max_requests,   \* argument: requested receive window
    sndlths,        \* sndlths[p][q]: elements rank p sends to rank q
    pc,             \* pc[p]: the MPI call rank p executes next
    istep,          \* istep[p]: loop index of rank p
    rstep,          \* rstep[p]: next receive to post in the main loop
    rcvids,         \* rcvids[p][i]: data receive requests of rank p
    hs_rcvids,      \* hs_rcvids[p][i]: handshake receive requests of rank p
    sndids,         \* sndids[p][i]: send requests of rank p
    rcvbuf,         \* rcvbuf[p][j]: receive buffer of rank p, by element
    msgs,           \* messages sent and not yet received
    rsend_err,      \* a ready-send was started with no matching receive posted
    crossed,        \* a receive was completed by a message of the other kind
    mpierr,         \* mpierr[p]: an MPI call of rank p has returned an error
    swapm_ret       \* swapm_ret[p]: what pio_swapm returned on rank p

swapmVars == << handshake, isend, max_requests, sndlths, pc, istep, rstep,
                rcvids, hs_rcvids, sndids, rcvbuf, msgs, rsend_err, crossed,
                mpierr, swapm_ret >>

\* State of the distributed-array write path (pio_darray.c), one entry per
\* compute task where indexed by task.
VARIABLES
    pio_buffer_size_limit, \* the global write-cache limit in bytes
    file,           \* the open file: its iotype and whether it is writable
    cur,            \* arguments of the collective call in progress
    ncalls,         \* number of collective calls started
    nfail,          \* number of failures injected so far
    at,             \* at[t]: position of task t inside the call
    needsflush,     \* needsflush[t]: the flush code held by task t
    localflush,     \* localflush[t]: the code task t computed locally
    wmbp,           \* wmbp[t]: index in buffer[t] of the WMB of this call
    ierr,           \* ierr[t]: return code of the last call on task t
    buffer,         \* buffer[t]: the chain of write-multi-buffers of the file
    curalloc,       \* curalloc[t]: bytes allocated from the buffer pool
    iobuf,          \* iobuf[t]: bytes held by file->iobuf (0 = NULL)
    vdesc,          \* vdesc[t][v]: vrsize, wb_pend and fillbuf (bytes) of variable v
    wb_pend,        \* wb_pend[t]: the file's pending byte counter
    disk,           \* disk[v][f][g]: the file's content
    hist,           \* per variable: the latest write call and what reached the file
    array,          \* array[t]: result of the last PIOc_read_darray, <<>> if none
    pre,            \* pre[t]: the chain and curalloc of task t when the call started
    ev,             \* ev[t]: rearrangements and backend calls made in this call
    setlimit        \* the last PIOc_set_buffer_size_limit call: argument and result

darrayVars == << pio_buffer_size_limit, file, cur, ncalls, nfail, at,
                 needsflush, localflush, wmbp, ierr, buffer, curalloc, iobuf,
                 vdesc, wb_pend, disk, hist, array, pre, ev, setlimit >>

\* State of the other routines of pio_spmd.c studied on their own.
VARIABLES
    sched,          \* the step-list loop of lines 162-168: arguments and locals
    fc,             \* pio_fc_gather: flow_cntl, root, recvcnt and the type's extent
    gpc,            \* gpc[p]: position of rank p inside pio_fc_gather
    loc,            \* the root's locals: loop index p, count and head
    rcvid,          \* the root's request array, slot by slot
    recvs,          \* recvs[p]: state of the root's receive from rank p
    recvbuf,        \* the root's receive buffer, byte by byte
    gmsgs,          \* messages of the gather in flight
    slots           \* the slots of rcvid posted in, waited on and passed to MPI_Waitall

spmdVars == << sched, fc, gpc, loc, rcvid, recvs, recvbuf, gmsgs, slots >>

vars == << swapmVars, darrayVars, spmdVars >>

\* Neither the step-list loop nor a gather runs.
SpmdUnused ==
    /\ sched = << >> /\ fc = << >> /\ gpc = << >> /\ loc = << >>
    /\ rcvid = << >> /\ recvs = << >> /\ recvbuf = << >> /\ gmsgs = {}
    /\ slots = << >>

---------------------------------------------------------------------------
\* Pure helpers of pio_spmd.c

RECURSIVE Ceil2From(_, _)
Ceil2From(p, i) == IF p < i THEN Ceil2From(2 * p, i) ELSE p

\* ceil2: the smallest power of two that is >= i.
ceil2(i) == Ceil2From(1, i)

RECURSIVE XOR(_, _)
\* The C operator ^ on non-negative integers.
XOR(a, b) ==
    IF a = 0 THEN b
    ELSE IF b = 0 THEN a
    ELSE (((a % 2) + (b % 2)) % 2) + 2 * XOR(a \div 2, b \div 2)

\* A pair that combines the rank with the step number itself: step 0 pairs
\* every rank with itself.
pairFromZero(np, p, k) ==
    LET q == XOR(p, k)
    IN  IF q > np - 1 THEN -1 ELSE q

\* pair(np, p, k): partner of rank k in step p, or -1.
pair(np, p, k) ==
    LET q == XOR(p + 1, k)
    IN  IF q > np - 1 THEN -1 ELSE q

\* rcvlths of rank me: consistent with the senders' sndlths.
rcvlths(me, p) == sndlths[p][me]

RECURSIVE SwapIdsFrom(_, _)
\* The loop of lines 162-168: the partners with something to exchange, in
\* step order.
SwapIdsFrom(me, s) ==
    IF s >= ceil2(NProcs) - 1 THEN << >>
    ELSE LET p == pair(NProcs, s, me)
         IN  IF p >= 0 /\ (sndlths[me][p] > 0 \/ rcvlths(me, p) > 0)
             THEN << p >> \o SwapIdsFrom(me, s + 1)
             ELSE SwapIdsFrom(me, s + 1)

\* swapids[i] of rank me (0-based like the C array; 0 past the last step).
swapids(me, i) ==
    LET ids == SwapIdsFrom(me, 0)
    IN  IF i + 1 <= Len(ids) THEN ids[i + 1] ELSE 0

steps(me) == Len(SwapIdsFrom(me, 0))

\* maxreq of lines 174-188.
MaxReq(st, mr) ==
    IF st = 1 THEN 1
    ELSE IF mr > 1 /\ mr < st THEN mr
    ELSE IF mr > 0 THEN 2
    ELSE st

\* maxreqh of lines 174-188.
MaxReqH(st, mr) ==
    IF st = 1 THEN 1
    ELSE IF mr > 1 /\ mr < st THEN mr \div 2
    ELSE IF mr > 0 THEN 1
    ELSE st

maxreq(me) == MaxReq(steps(me), max_requests)
maxreqh(me) == MaxReqH(steps(me), max_requests)

---------------------------------------------------------------------------
\* Buffers of the exchange (laid out as in the test program of pio_spmd.c)

RECURSIVE SumTo(_, _)
SumTo(f, n) == IF n <= 0 THEN 0 ELSE f[n - 1] + SumTo(f, n - 1)

\* sdispls[q] of rank p, in elements.
sdispls(p, q) == SumTo(sndlths[p], q)

\* rdispls[p] of rank r, in elements.
rdispls(r, p) == SumTo([k \in Procs |-> sndlths[k][r]], p)

\* sbuf[j] of rank p.
sndbuf(p, j) == 1 + j + 100 * p

\* The slice of sndbuf rank p sends to rank q.
Slice(p, q) == [j \in 1 .. sndlths[p][q] |-> sndbuf(p, sdispls(p, q) + j - 1)]

RcvSize(r) == SumTo([k \in Procs |-> sndlths[k][r]], NProcs)

\* rbuf[j] before the call.
RcvInit(r) == [j \in 0 .. (RcvSize(r) - 1) |-> -(j + 1)]

---------------------------------------------------------------------------
\* MPI point-to-point operations

NullReq == [st |-> "null", src |-> -1, tag |-> -1, kind |-> "none",
            ptr |-> 0, cnt |-> 0]

\* MPI_Irecv: a posted receive request.
Irecv(src, tag, kind, ptr, cnt) ==
    [st |-> "posted", src |-> src, tag |-> tag, kind |-> kind,
     ptr |-> ptr, cnt |-> cnt]

Msg(src, dst, tag, kind, data) ==
    [src |-> src, dst |-> dst, tag |-> tag, kind |-> kind, data |-> data]

\* The receive requests of rank p that a message from src with this tag matches.
PostedMatch(p, src, tag) ==
    \/ \E i \in Procs : /\ rcvids[p][i].st = "posted"
                        /\ rcvids[p][i].src = src
                        /\ rcvids[p][i].tag = tag
    \/ \E i \in Procs : /\ hs_rcvids[p][i].st = "posted"
                        /\ hs_rcvids[p][i].src = src
                        /\ hs_rcvids[p][i].tag = tag

\* rcvbuf of a rank after a message's data has been stored at element ptr.
Store(buf, ptr, data) ==
    [j \in DOMAIN buf |->
        IF j >= ptr /\ j < ptr + Len(data) THEN data[j - ptr + 1] ELSE buf[j]]


---------------------------------------------------------------------------
\* Control flow of pio_swapm between two MPI calls

\* The position of a rank: the MPI call it executes next and its loop indices.
At(op, i, rs) == [pc |-> op, istep |-> i, rstep |-> rs]

RECURSIVE Adv(_, _, _, _)
\* From control point lbl of pio_swapm with istep = i and rstep = rs, the next
\* MPI call rank me reaches (the loop tests and the length tests in between
\* make no call).
Adv(me, lbl, i, rs) ==
    CASE lbl = "L_hs_post" ->            \* lines 191-197
           IF i >= maxreq(me) THEN Adv(me, "L_rcv_post", 0, rs)
           ELSE IF sndlths[me][swapids(me, i)] > 0 THEN At("hs_post", i, rs)
           ELSE Adv(me, "L_hs_post", i + 1, rs)
      [] lbl = "L_rcv_post" ->           \* lines 199-208
           IF i >= maxreq(me) THEN Adv(me, "L_loop", 0, maxreq(me))
           ELSE IF rcvlths(me, swapids(me, i)) > 0 THEN At("rcv_post", i, rs)
           ELSE Adv(me, "L_rcv_post", i + 1, rs)
      [] lbl = "L_loop" ->               \* lines 211-221
           IF i >= steps(me)
           THEN Adv(me, "L_fin", steps(me) - maxreqh(me), rs)
           ELSE IF sndlths[me][swapids(me, i)] > 0
           THEN (IF handshake THEN At("wait_hs", i, rs) ELSE At("rsend", i, rs))
           ELSE Adv(me, "L_mid", i, rs)
      [] lbl = "L_mid" ->                \* lines 222-226
           IF i > maxreqh(me)
           THEN (IF rcvlths(me, swapids(me, i - maxreqh(me))) > 0
                 THEN At("wait_rcv", i, rs)
                 ELSE Adv(me, "L_post", i, rs))
           ELSE Adv(me, "L_loop", i + 1, rs)
      [] lbl = "L_post" ->               \* lines 227-232
           IF rs < steps(me)
           THEN (IF handshake /\ sndlths[me][swapids(me, rs)] > 0
                 THEN At("post_hs", i, rs)
                 ELSE Adv(me, "L_post2", i, rs))
           ELSE Adv(me, "L_loop", i + 1, rs)
      [] lbl = "L_post2" ->              \* lines 233-243
           IF rcvlths(me, swapids(me, rs)) > 0 THEN At("post_rcv", i, rs)
           ELSE Adv(me, "L_loop", i + 1, rs + 1)
      [] lbl = "L_fin" ->                \* lines 246-249
           IF i >= steps(me) THEN At("done", i, rs)
           ELSE IF rcvlths(me, swapids(me, i)) > 0 THEN At("fin_wait_rcv", i, rs)
           ELSE Adv(me, "L_fin2", i, rs)
      [] lbl = "L_fin2" ->               \* lines 250-252
           IF isend /\ sndlths[me][swapids(me, i)] > 0
           THEN At("fin_wait_snd", i, rs)
           ELSE Adv(me, "L_fin", i + 1, rs)

\* Rank me moves to position pos; the end of pio_swapm is one of the two
\* statements return PIO_NOERR (lines 171 and 254).
Goto(me, pos) ==
    /\ pc' = [pc EXCEPT ![me] = pos.pc]
    /\ istep' = [istep EXCEPT ![me] = pos.istep]
    /\ rstep' = [rstep EXCEPT ![me] = pos.rstep]
    /\ swapm_ret' = [swapm_ret EXCEPT ![me] =
                        IF pos.pc = "done" THEN "PIO_NOERR" ELSE @]

\* The messages that match a posted receive request of rank me: same source
\* and same tag.
Matching(me, req) ==
    {m \in msgs : m.dst = me /\ m.src = req.src /\ m.tag = req.tag}

\* MPI_Wait on a request: returns at once on MPI_REQUEST_NULL; on a posted
\* receive it returns once a matching message has arrived.
WaitOK(me, req) == req.st = "null" \/ Matching(me, req) # {}

\* The message MPI_Wait completes the request with (none for a null request).
Received(me, req) ==
    IF req.st = "null" THEN {} ELSE {CHOOSE m \in Matching(me, req) : TRUE}

\* rcvbuf of rank me after MPI_Wait on a data receive request.
AfterWait(me, req) ==
    IF req.st = "null" THEN rcvbuf[me]
    ELSE Store(rcvbuf[me], req.ptr, (CHOOSE m \in Matching(me, req) : TRUE).data)

\* A receive of one kind was completed by a message of the other kind.
Crossed(me, req) == \E m \in Received(me, req) : m.kind # req.kind

---------------------------------------------------------------------------
\* The MPI calls of pio_swapm, one action each

\* A receive of the self copy posted at the start of rcvbuf.
SelfIrecvAtStart(me) ==
    /\ pc[me] = "self_irecv"
    /\ rcvids' = [rcvids EXCEPT ![me][0] =
                    Irecv(me, me + NProcs, "data", 0, rcvlths(me, me))]
    /\ pc' = [pc EXCEPT ![me] = "self_send"]
    /\ UNCHANGED << handshake, isend, max_requests, sndlths, istep, rstep,
                    swapm_ret,
                    hs_rcvids, sndids, rcvbuf, msgs, rsend_err, crossed >>
    /\ UNCHANGED << mpierr, darrayVars, spmdVars >>

\* line 148: the receive of the self copy.
SelfIrecv(me) ==
    /\ pc[me] = "self_irecv"
    /\ rcvids' = [rcvids EXCEPT ![me][0] =
                    Irecv(me, me + NProcs, "data", rdispls(me, me), rcvlths(me, me))]
    /\ pc' = [pc EXCEPT ![me] = "self_send"]
    /\ UNCHANGED << handshake, isend, max_requests, sndlths, istep, rstep,
                    swapm_ret,
                    hs_rcvids, sndids, rcvbuf, msgs, rsend_err, crossed >>
    /\ UNCHANGED << mpierr, darrayVars, spmdVars >>

\* line 151: the blocking send of the self copy.
SelfSend(me) ==
    /\ pc[me] = "self_send"
    /\ msgs' = msgs \cup {Msg(me, me, me + NProcs, "data", Slice(me, me))}
    /\ pc' = [pc EXCEPT ![me] = "self_wait"]
    /\ UNCHANGED << handshake, isend, max_requests, sndlths, istep, rstep,
                    swapm_ret,
                    rcvids, hs_rcvids, sndids, rcvbuf, rsend_err, crossed >>
    /\ UNCHANGED << mpierr, darrayVars, spmdVars >>

\* line 152: wait for the self copy.
SelfWait(me) ==
    /\ pc[me] = "self_wait"
    /\ WaitOK(me, rcvids[me][0])
    /\ rcvbuf' = [rcvbuf EXCEPT ![me] = AfterWait(me, rcvids[me][0])]
    /\ msgs' = msgs \ Received(me, rcvids[me][0])
    /\ crossed' = (crossed \/ Crossed(me, rcvids[me][0]))
    /\ rcvids' = [rcvids EXCEPT ![me][0] = NullReq]
    /\ pc' = [pc EXCEPT ![me] = "setup"]
    /\ UNCHANGED << handshake, isend, max_requests, sndlths, istep, rstep,
                    swapm_ret,
                    hs_rcvids, sndids, rsend_err >>
    /\ UNCHANGED << mpierr, darrayVars, spmdVars >>

\* lines 155-188: reset the request arrays, build swapids, size the window.
Setup(me) ==
    /\ pc[me] = "setup"
    /\ rcvids' = [rcvids EXCEPT ![me] = [i \in Procs |-> NullReq]]
    /\ sndids' = [sndids EXCEPT ![me] = [i \in Procs |-> NullReq]]
    /\ hs_rcvids' = [hs_rcvids EXCEPT ![me] = [i \in Procs |-> NullReq]]
    /\ IF steps(me) = 0
       THEN Goto(me, At("done", 0, 0))
       ELSE IF handshake
            THEN Goto(me, Adv(me, "L_hs_post", 0, 0))
            ELSE Goto(me, Adv(me, "L_rcv_post", 0, 0))
    /\ UNCHANGED << handshake, isend, max_requests, sndlths, rcvbuf, msgs,
                    rsend_err, crossed >>
    /\ UNCHANGED << mpierr, darrayVars, spmdVars >>

\* line 195: post the receive of a partner's ready message.
HsPost(me) ==
    /\ pc[me] = "hs_post"
    /\ LET i == istep[me]
           p == swapids(me, i)
       IN  /\ hs_rcvids' = [hs_rcvids EXCEPT ![me][i] =
                               Irecv(p, me + NProcs, "hs", 0, 1)]
           /\ Goto(me, Adv(me, "L_hs_post", i + 1, rstep[me]))
    /\ UNCHANGED << handshake, isend, max_requests, sndlths, rcvids, sndids,
                    rcvbuf, msgs, rsend_err, crossed >>
    /\ UNCHANGED << mpierr, darrayVars, spmdVars >>

\* line 204: post a data receive of the first window.
RcvPost(me) ==
    /\ pc[me] = "rcv_post"
    /\ LET i == istep[me]
           p == swapids(me, i)
       IN  /\ rcvids' = [rcvids EXCEPT ![me][i] =
                            Irecv(p, p + NProcs, "data", rdispls(me, p), rcvlths(me, p))]
           /\ IF handshake
              THEN Goto(me, At("rcv_post_hs", i, rstep[me]))
              ELSE Goto(me, Adv(me, "L_rcv_post", i + 1, rstep[me]))
    /\ UNCHANGED << handshake, isend, max_requests, sndlths, hs_rcvids, sndids,
                    rcvbuf, msgs, rsend_err, crossed >>
    /\ UNCHANGED << mpierr, darrayVars, spmdVars >>

\* line 206: tell the partner that its data receive is posted.
RcvPostHs(me) ==
    /\ pc[me] = "rcv_post_hs"
    /\ LET i == istep[me]
           p == swapids(me, i)
       IN  /\ msgs' = msgs \cup {Msg(me, p, p + NProcs, "hs", << 1 >>)}
           /\ Goto(me, Adv(me, "L_rcv_post", i + 1, rstep[me]))
    /\ UNCHANGED << handshake, isend, max_requests, sndlths, rcvids, hs_rcvids,
                    sndids, rcvbuf, rsend_err, crossed >>
    /\ UNCHANGED << mpierr, darrayVars, spmdVars >>

\* line 216: wait for the partner's ready message.
WaitHs(me) ==
    /\ pc[me] = "wait_hs"
    /\ WaitOK(me, hs_rcvids[me][istep[me]])
    /\ msgs' = msgs \ Received(me, hs_rcvids[me][istep[me]])
    /\ crossed' = (crossed \/ Crossed(me, hs_rcvids[me][istep[me]]))
    /\ hs_rcvids' = [hs_rcvids EXCEPT ![me][istep[me]] = NullReq]
    /\ Goto(me, At("rsend", istep[me], rstep[me]))
    /\ UNCHANGED << handshake, isend, max_requests, sndlths, rcvids, sndids,
                    rcvbuf, rsend_err >>
    /\ UNCHANGED << mpierr, darrayVars, spmdVars >>

\* A data send tagged with the rank of the receiver.
RsendReceiverTag(me) ==
    /\ pc[me] = "rsend"
    /\ LET i == istep[me]
           p == swapids(me, i)
           m == Msg(me, p, p + NProcs, "data", Slice(me, p))
       IN  /\ IF PostedMatch(p, me, p + NProcs)
              THEN /\ msgs' = msgs \cup {m}
                   /\ UNCHANGED rsend_err
              ELSE /\ rsend_err' = TRUE
                   /\ \/ msgs' = msgs \cup {m}
                      \/ msgs' = msgs
           /\ Goto(me, Adv(me, "L_mid", i, rstep[me]))
    /\ UNCHANGED << handshake, isend, max_requests, sndlths, rcvids, hs_rcvids,
                    sndids, rcvbuf, crossed >>
    /\ UNCHANGED << mpierr, darrayVars, spmdVars >>

\* line 220: MPI_Rsend of the data. A ready-send with no matching receive
\* posted is erroneous and its outcome undefined: the message is either
\* handled like a standard send or lost.
Rsend(me) ==
    /\ pc[me] = "rsend"
    /\ LET i == istep[me]
           p == swapids(me, i)
           m == Msg(me, p, me + NProcs, "data", Slice(me, p))
       IN  /\ IF PostedMatch(p, me, me + NProcs)
              THEN /\ msgs' = msgs \cup {m}
                   /\ UNCHANGED rsend_err
              ELSE /\ rsend_err' = TRUE
                   /\ \/ msgs' = msgs \cup {m}
                      \/ msgs' = msgs
           /\ Goto(me, Adv(me, "L_mid", i, rstep[me]))
    /\ UNCHANGED << handshake, isend, max_requests, sndlths, rcvids, hs_rcvids,
                    sndids, rcvbuf, crossed >>
    /\ UNCHANGED << mpierr, darrayVars, spmdVars >>

\* line 225: wait for the receive posted maxreqh steps ago.
WaitRcv(me) ==
    /\ pc[me] = "wait_rcv"
    /\ LET k == istep[me] - maxreqh(me)
       IN  /\ WaitOK(me, rcvids[me][k])
           /\ rcvbuf' = [rcvbuf EXCEPT ![me] = AfterWait(me, rcvids[me][k])]
           /\ msgs' = msgs \ Received(me, rcvids[me][k])
           /\ crossed' = (crossed \/ Crossed(me, rcvids[me][k]))
           /\ rcvids' = [rcvids EXCEPT ![me][k] = NullReq]
    /\ Goto(me, Adv(me, "L_post", istep[me], rstep[me]))
    /\ UNCHANGED << handshake, isend, max_requests, sndlths, hs_rcvids, sndids,
                    rsend_err >>
    /\ UNCHANGED << mpierr, darrayVars, spmdVars >>

\* line 231: post the receive of the next partner's ready message.
PostHs(me) ==
    /\ pc[me] = "post_hs"
    /\ LET rs == rstep[me]
           p == swapids(me, rs)
       IN  /\ hs_rcvids' = [hs_rcvids EXCEPT ![me][rs] =
                               Irecv(p, me + NProcs, "hs", 0, 1)]
           /\ Goto(me, Adv(me, "L_post2", istep[me], rs))
    /\ UNCHANGED << handshake, isend, max_requests, sndlths, rcvids, sndids,
                    rcvbuf, msgs, rsend_err, crossed >>
    /\ UNCHANGED << mpierr, darrayVars, spmdVars >>

\* line 238: post the next data receive.
PostRcv(me) ==
    /\ pc[me] = "post_rcv"
    /\ LET rs == rstep[me]
           p == swapids(me, rs)
       IN  /\ rcvids' = [rcvids EXCEPT ![me][rs] =
                            Irecv(p, p + NProcs, "data", rdispls(me, p), rcvlths(me, p))]
           /\ IF handshake
              THEN Goto(me, At("post_rcv_hs", istep[me], rs))
              ELSE Goto(me, Adv(me, "L_loop", istep[me] + 1, rs + 1))
    /\ UNCHANGED << handshake, isend, max_requests, sndlths, hs_rcvids, sndids,
                    rcvbuf, msgs, rsend_err, crossed >>
    /\ UNCHANGED << mpierr, darrayVars, spmdVars >>

\* line 240: tell the next partner that its data receive is posted.
PostRcvHs(me) ==
    /\ pc[me] = "post_rcv_hs"
    /\ LET rs == rstep[me]
           p == swapids(me, rs)
       IN  /\ msgs' = msgs \cup {Msg(me, p, p + NProcs, "hs", << 1 >>)}
           /\ Goto(me, Adv(me, "L_loop", istep[me] + 1, rs + 1))
    /\ UNCHANGED << handshake, isend, max_requests, sndlths, rcvids, hs_rcvids,
                    sndids, rcvbuf, rsend_err, crossed >>
    /\ UNCHANGED << mpierr, darrayVars, spmdVars >>

\* line 249: wait for one of the last maxreqh receives.
FinWaitRcv(me) ==
    /\ pc[me] = "fin_wait_rcv"
    /\ WaitOK(me, rcvids[me][istep[me]])
    /\ rcvbuf' = [rcvbuf EXCEPT ![me] = AfterWait(me, rcvids[me][istep[me]])]
    /\ msgs' = msgs \ Received(me, rcvids[me][istep[me]])
    /\ crossed' = (crossed \/ Crossed(me, rcvids[me][istep[me]]))
    /\ rcvids' = [rcvids EXCEPT ![me][istep[me]] = NullReq]
    /\ Goto(me, Adv(me, "L_fin2", istep[me], rstep[me]))
    /\ UNCHANGED << handshake, isend, max_requests, sndlths, hs_rcvids, sndids,
                    rsend_err >>
    /\ UNCHANGED << mpierr, darrayVars, spmdVars >>

\* line 251: wait for a send request (sndids is never set by a send).
FinWaitSnd(me) ==
    /\ pc[me] = "fin_wait_snd"
    /\ WaitOK(me, sndids[me][istep[me]])
    /\ sndids' = [sndids EXCEPT ![me][istep[me]] = NullReq]
    /\ Goto(me, Adv(me, "L_fin", istep[me] + 1, rstep[me]))
    /\ UNCHANGED << handshake, isend, max_requests, sndlths, rcvids, hs_rcvids,
                    rcvbuf, msgs, rsend_err, crossed >>
    /\ UNCHANGED << mpierr, darrayVars, spmdVars >>

---------------------------------------------------------------------------
\* The calls of the test program: every rank calls pio_swapm once

\* The values of max_requests the ranks are called with.
\* No file is open while the exchange alone is studied.
DarrayUnused ==
    /\ pio_buffer_size_limit = 0 /\ file = <<>> /\ cur = <<>>
    /\ ncalls = 0 /\ nfail = 0 /\ at = <<>> /\ needsflush = <<>>
    /\ localflush = <<>> /\ wmbp = <<>> /\ ierr = <<>> /\ buffer = <<>>
    /\ curalloc = <<>> /\ iobuf = <<>> /\ vdesc = <<>>
    /\ wb_pend = <<>> /\ disk = <<>> /\ hist = <<>> /\ array = <<>>
    /\ pre = <<>> /\ ev = <<>> /\ setlimit = <<>>

MaxRequestsChoices == {0, 1, 2, 3}

\* Length patterns: rank 0 exchanging with every rank (itself included), a
\* ring, a gather to rank 0, and rank 1 sending to rank 0 and to itself
\* while rank 0 sends to rank 1.
LenPatterns ==
    { [p \in Procs |-> [q \in Procs |-> IF p = 0 \/ q = 0 THEN 1 ELSE 0]],
      [p \in Procs |-> [q \in Procs |-> IF q = (p + 1) % NProcs THEN MaxLen ELSE 0]],
      [p \in Procs |-> [q \in Procs |-> IF q = 0 THEN 1 ELSE 0]],
      [p \in Procs |-> [q \in Procs |->
          IF p \in {0, 1} /\ q \in {0, 1} /\ p + q > 0 THEN 1 ELSE 0]] }

InitSwapm ==
    /\ handshake \in BOOLEAN
    /\ isend \in BOOLEAN
    /\ max_requests \in MaxRequestsChoices
    /\ sndlths \in LenPatterns
    /\ pc = [p \in Procs |-> IF sndlths[p][p] > 0 THEN "self_irecv" ELSE "setup"]
    /\ istep = [p \in Procs |-> 0]
    /\ rstep = [p \in Procs |-> 0]
    /\ rcvids = [p \in Procs |-> [i \in Procs |-> NullReq]]
    /\ hs_rcvids = [p \in Procs |-> [i \in Procs |-> NullReq]]
    /\ sndids = [p \in Procs |-> [i \in Procs |-> NullReq]]
    /\ rcvbuf = [p \in Procs |-> RcvInit(p)]
    /\ msgs = {}
    /\ rsend_err = FALSE
    /\ crossed = FALSE
    /\ mpierr = [p \in Procs |-> FALSE]
    /\ swapm_ret = [p \in Procs |-> "none"]
    /\ DarrayUnused
    /\ SpmdUnused

NextSwapm ==
    \E me \in Procs :
        \/ SelfIrecv(me) \/ SelfSend(me) \/ SelfWait(me) \/ Setup(me)
        \/ HsPost(me) \/ RcvPost(me) \/ RcvPostHs(me)
        \/ WaitHs(me) \/ Rsend(me) \/ WaitRcv(me)
        \/ PostHs(me) \/ PostRcv(me) \/ PostRcvHs(me)
        \/ FinWaitRcv(me) \/ FinWaitSnd(me)

SpecSwapm == InitSwapm /\ [][NextSwapm]_vars


---------------------------------------------------------------------------
\* pio_swapm with MPI calls that report an error

\* Number of MPI calls that report an error in a behaviour.
MaxMpiErrs == 1

\* The position of rank me after the MPI call it is at, whatever the call
\* returned.
AfterCall(me) ==
    LET i == istep[me]
        rs == rstep[me]
    IN CASE pc[me] = "self_irecv" -> At("self_send", i, rs)
         [] pc[me] = "self_send" -> At("self_wait", i, rs)
         [] pc[me] = "self_wait" -> At("setup", i, rs)
         [] pc[me] = "hs_post" -> Adv(me, "L_hs_post", i + 1, rs)
         [] pc[me] = "rcv_post" ->
              IF handshake THEN At("rcv_post_hs", i, rs)
              ELSE Adv(me, "L_rcv_post", i + 1, rs)
         [] pc[me] = "rcv_post_hs" -> Adv(me, "L_rcv_post", i + 1, rs)
         [] pc[me] = "wait_hs" -> At("rsend", i, rs)
         [] pc[me] = "rsend" -> Adv(me, "L_mid", i, rs)
         [] pc[me] = "wait_rcv" -> Adv(me, "L_post", i, rs)
         [] pc[me] = "post_hs" -> Adv(me, "L_post2", i, rs)
         [] pc[me] = "post_rcv" ->
              IF handshake THEN At("post_rcv_hs", i, rs)
              ELSE Adv(me, "L_loop", i + 1, rs + 1)
         [] pc[me] = "post_rcv_hs" -> Adv(me, "L_loop", i + 1, rs + 1)
         [] pc[me] = "fin_wait_rcv" -> Adv(me, "L_fin2", i, rs)
         [] pc[me] = "fin_wait_snd" -> Adv(me, "L_fin", i + 1, rs)

\* The number of ranks on which an MPI call has reported an error.
MpiErrs == Cardinality({p \in Procs : mpierr[p]})

\* lines 20-31 and the calls wrapped in CheckMPIReturn: the MPI call rank me
\* is at does nothing and returns an error; CheckMPIReturn prints a message
\* and pio_swapm goes on with its next statement.
FailedCall(me) ==
    /\ pc[me] \notin {"setup", "done"}
    /\ MpiErrs < MaxMpiErrs
    /\ mpierr' = [mpierr EXCEPT ![me] = TRUE]
    /\ Goto(me, AfterCall(me))
    /\ UNCHANGED << handshake, isend, max_requests, sndlths, rcvids, hs_rcvids,
                    sndids, rcvbuf, msgs, rsend_err, crossed >>
    /\ UNCHANGED << darrayVars, spmdVars >>

\* The calls with a failing MPI call are made with a window of two and with
\* handshake and isend both on or both off.
InitSwapmErr == InitSwapm /\ max_requests = 2 /\ isend = handshake

NextSwapmErr ==
    \/ NextSwapm
    \/ \E me \in Procs : FailedCall(me)

SpecSwapmErr == InitSwapmErr /\ [][NextSwapmErr]_vars

---------------------------------------------------------------------------
\* pio_swapm with the ranks scheduled: as long as the call some rank is at
\* can complete, a call completes.  A rank makes finitely many calls, so no
\* rank that can go on is left behind for ever.

\* The calls studied for termination: one value of max_requests, and isend
\* set as handshake is.
InitSwapmLive == InitSwapm /\ max_requests = 1 /\ isend = handshake

SpecSwapmLive == InitSwapmLive /\ [][NextSwapm]_vars /\ WF_vars(NextSwapm)
---------------------------------------------------------------------------
\* PART II: the write path for distributed arrays (pio_darray.c)

\* Number of compute tasks; task 0 is also the only I/O task (io_rank 0).
NTasks == 2

\* Number of collective calls in a behaviour.
MaxCalls == 3

\* Number of failures (allocation, MPI, backend) injected in a behaviour.
MaxFail == 1

\* Capacity of the buffer pool of a task, in bytes.
PoolSize == 32

\* Bytes of the pool of task 0 that other users of the pool may hold.
OtherBytes == 20

\* The limit PIOc_set_buffer_size_limit is called with.
SmallLimit == 4

\* Initial value of pio_buffer_size_limit (pio_darray.c line 19).
InitialLimit == 10485760

\* Build-time cap on the regions cached for one I/O task (config.h).
PIO_MAX_CACHED_IO_REGIONS == 2

Tasks == 0 .. (NTasks - 1)
VarIds == {0, 1, 2}
IoIds == {0, 1, 2, 3, 4}

\* Size of the global array of every variable: two slots per task.
GSize == 2 * NTasks
Slots == 1 .. GSize

\* varids[v] > PIO_MAX_VARS is rejected by PIOc_write_darray_multi.
PIO_MAX_VARS == Cardinality(VarIds)

\* Content of memory that was allocated and never written.
Uninit == -1

\* vdesc->record: variable 0 has no record dimension, variables 1 and 2 are
\* record variables positioned on record 0.
record(varid) == IF varid = 0 THEN -1 ELSE 0
Frames == {-1, 0}

\* The decompositions.  ioid 0 is a BOX decomposition that covers the whole
\* array; ioid 1 is a SUBSET decomposition in which only task 0 contributes
\* (to slot 2), every other slot being a hole that needs the fill value;
\* ioid 2 is like ioid 0 but names a rearranger that is neither of the two;
\* ioid 3 is a BOX decomposition in which every task contributes to the
\* first of its two slots only, so that it needs the fill value; ioid 4 is
\* like ioid 1 but asks for no fill value.
iodesc(ioid) ==
    CASE ioid \in {1, 4} ->
         [ rearranger |-> "SUBSET", needsfill |-> (ioid = 1),
           mpitype |-> "MPI_CHAR",
           mpitype_size |-> 1, maxregions |-> 1, maxfillregions |-> 2,
           map |-> [t \in Tasks |-> IF t = 0 THEN << 2 >> ELSE << >>],
           holes |-> Slots \ {2} ]
      [] ioid = 3 ->
         [ rearranger |-> "BOX", needsfill |-> TRUE, mpitype |-> "MPI_SHORT",
           mpitype_size |-> 2, maxregions |-> 1, maxfillregions |-> 0,
           map |-> [t \in Tasks |-> << 2 * t + 1 >>],
           holes |-> {} ]
      [] OTHER ->
         [ rearranger |-> IF ioid = 0 THEN "BOX" ELSE "OTHER",
           needsfill |-> FALSE, mpitype |-> "MPI_SHORT",
           mpitype_size |-> 2, maxregions |-> 1, maxfillregions |-> 0,
           map |-> [t \in Tasks |-> << 2 * t + 1, 2 * t + 2 >>],
           holes |-> {} ]

\* The slots of the array no task contributes to.
Unmapped(d) ==
    {g \in Slots : \A t \in Tasks : \A i \in 1 .. Len(d.map[t]) : d.map[t][i] # g}

\* iodesc->ndof on task t.
ndof(d, t) == Len(d.map[t])

\* ios->ioproc and ios->io_rank of task t.
ioproc(t) == t = 0
io_rank(t) == IF t = 0 THEN 0 ELSE -1

\* iodesc->llen: the slots task t holds as an I/O task.
llen(d, t) == IF ioproc(t) THEN GSize - Cardinality(d.holes) ELSE 0

\* iodesc->maxiobuflen: the largest llen of an I/O task.
maxiobuflen(d) == GSize - Cardinality(d.holes)

\* iodesc->holegridsize of task t and iodesc->maxholegridsize.
holegridsize(d, t) == IF ioproc(t) THEN Cardinality(d.holes) ELSE 0
maxholegridsize(d) == Cardinality(d.holes)

\* The MPI types PIOc_write_darray knows a default fill value for.
KnownTypes == {"MPI_BYTE", "MPI_CHAR", "MPI_SHORT", "MPI_INT", "MPI_FLOAT",
               "MPI_DOUBLE"}

\* The default fill value of the netCDF type (PIO_FILL_*), and the value a
\* caller passes for variable v.
DefaultFill == 99
UserFill(v) == 70 + v

\* Element i of the array task t passes in call number n.
Elem(n, t, i) == 100 * n + 10 * t + i

\* bstats: the largest free block of the pool of task t for an allocated
\* amount c (the pool is taken to be unfragmented).
maxfree(c) == PoolSize - c

\* bget(n) succeeds when a block of n bytes is free.
Fits(c, n) == n <= maxfree(c)

\* realloc / bgetr to n elements: the old content survives, new slots are
\* not initialised.
Grow(s, n) == [i \in 1 .. n |-> IF i <= Len(s) THEN s[i] ELSE Uninit]

\* The file's head WMB (file->buffer) and a WMB created by PIOc_write_darray
\* (lines 721-740).  ent remembers, for each queued payload, the call that
\* queued it and what was passed.
HeadWmb == [ ioid |-> -1, recordvar |-> 0, num_arrays |-> 0, arraylen |-> 0,
             vid |-> << >>, data |-> << >>, frame |-> << >>,
             fillvalue |-> << >>, ent |-> << >> ]

NewWmb(ioid, recordvar, arraylen) ==
    [ ioid |-> ioid, recordvar |-> recordvar, num_arrays |-> 0,
      arraylen |-> arraylen, vid |-> << >>, data |-> << >>, frame |-> << >>,
      fillvalue |-> << >>, ent |-> << >> ]

\* A lookup that keys the WMB on the decomposition alone.
WmbMatchesIoid(w, ioid, recordvar) == w.ioid = ioid

\* Lines 716 and 721: the WMB serves this decomposition and record kind.
WmbMatches(w, ioid, recordvar) == w.ioid = ioid /\ w.recordvar = recordvar

\* A lookup that tests the last WMB of the chain only.
FindWmbLast(chain, i, ioid, recordvar) == Len(chain)

\* Lines 715-717: walk the chain until a WMB matches or the last one is hit.
RECURSIVE FindWmb(_, _, _, _)
FindWmb(chain, i, ioid, recordvar) ==
    IF i < Len(chain) /\ ~WmbMatches(chain[i], ioid, recordvar)
    THEN FindWmb(chain, i + 1, ioid, recordvar)
    ELSE i

\* Pool bytes behind the data and fillvalue pointers of a WMB.
WmbBytes(w, d) == (Len(w.data) + Len(w.fillvalue)) * d.mpitype_size

\* A decision that tests the pool before the limit.
needs_flush_pool_first(w, arraylen, d, c) ==
    IF 10 * (PoolSize - c) <= 11 * ((1 + w.num_arrays) * (arraylen * d.mpitype_size))
    THEN 1
    ELSE IF c >= pio_buffer_size_limit THEN 2 ELSE 0

\* PIO_wmb_needs_flush (lines 548-585); 10 * maxfree <= 11 * x is the
\* integer form of maxfree <= 1.1 * x.
PIO_wmb_needs_flush(w, arraylen, d, c) ==
    IF c >= pio_buffer_size_limit THEN 2
    ELSE IF 10 * maxfree(c) <= 11 * ((1 + w.num_arrays) * (arraylen * d.mpitype_size))
         THEN 1
         ELSE 0

\* A cap that counts the queued arrays without the one to be appended.
RegionCapQueued(w, d) ==
    w.num_arrays * (IF d.maxregions >= d.maxfillregions THEN d.maxregions
                    ELSE d.maxfillregions) > PIO_MAX_CACHED_IO_REGIONS

\* Lines 758-761: the region cap overrides the local decision.
RegionCap(w, d) ==
    LET decomp_max_regions ==
            IF d.maxregions >= d.maxfillregions THEN d.maxregions
            ELSE d.maxfillregions
    IN (1 + w.num_arrays) * decomp_max_regions > PIO_MAX_CACHED_IO_REGIONS

LocalDecision(w, arraylen, d, c) ==
    IF RegionCap(w, d) THEN 2 ELSE PIO_wmb_needs_flush(w, arraylen, d, c)

\* MPI_Allreduce(MPI_IN_PLACE, &needsflush, 1, MPI_INT, MPI_MAX, comp_comm).
MaxOf(S) == CHOOSE x \in S : \A y \in S : y <= x
\* A reduction that leaves every task its own value.
Allreduce_none(val) == val

Allreduce_MAX(val) == [t \in Tasks |-> MaxOf({val[u] : u \in Tasks})]

---------------------------------------------------------------------------
\* PIOc_write_darray_multi (lines 106-487), as a function of the state of one
\* task.  s is a record of the fields the function may change:
\*   ret, curalloc, iobuf, vdesc, wb_pend, disk, ev
\* a is the record of its arguments:
\*   varids, ioid, nvars, arraylen, array, frame, fillvalue, flushtodisk
\* inj names the step an injected failure hits ("none" if none), and ub the
\* outcome of reading past the end of an argument array.

InjWrite == {"ndims", "iobuf", "rearr", "data", "fill", "flushout"}

\* Element k of a C array passed as a sequence; reading past its end (or
\* through NULL) yields whatever is there.
Peek(arr, k) == IF k \in 1 .. Len(arr) THEN arr[k] ELSE Uninit

\* The argument arrays hold every element the function reads.
ArgsInBounds(a) ==
    /\ Len(a.varids) >= a.nvars
    /\ Len(a.array) >= a.nvars * a.arraylen
    /\ a.frame = << >> \/ Len(a.frame) >= a.nvars
    /\ ~iodesc(a.ioid).needsfill \/ Len(a.fillvalue) >= a.nvars

RECURSIVE SetSum(_, _)
SetSum(f, S) ==
    IF S = {} THEN 0
    ELSE LET x == CHOOSE y \in S : TRUE IN f[x] + SetSum(f, S \ {x})

\* flush_output_buffer(file, force, 0): completion of the non-blocking
\* writes releases the scratch buffers the backend kept.
flush_output_buffer(s, force) ==
    IF ~force THEN s
    ELSE LET fb == SetSum([v \in VarIds |-> s.vdesc[v].fillbuf], VarIds)
         IN [s EXCEPT !.curalloc = @ - s.iobuf - fb,
                      !.iobuf = 0,
                      !.vdesc = [v \in VarIds |-> [s.vdesc[v] EXCEPT !.fillbuf = 0]]]

\* The frame the backend writes variable number nv at.
FrameOf(a, nv) == IF a.frame = << >> THEN -1 ELSE Peek(a.frame, nv)

\* write_darray_multi_par / _serial with DARRAY_DATA: the elements task t
\* contributed reach the slots its map names, variable after variable.
RECURSIVE BackendData(_, _, _, _)
BackendData(dk, t, a, nv) ==
    IF nv > a.nvars THEN dk
    ELSE LET m == iodesc(a.ioid).map[t]
             v == Peek(a.varids, nv)
             f == FrameOf(a, nv)
             nd == IF v \in VarIds /\ f \in Frames
                   THEN [dk EXCEPT ![v][f] =
                           [g \in Slots |->
                              IF \E i \in 1 .. a.arraylen : m[i] = g
                              THEN Peek(a.array, (nv - 1) * a.arraylen
                                        + (CHOOSE i \in 1 .. a.arraylen : m[i] = g))
                              ELSE @[g]]]
                   ELSE dk
         IN BackendData(nd, t, a, nv + 1)

\* write_darray_multi_par / _serial with DARRAY_DATA under the BOX
\* rearranger: the I/O task writes the whole of its region, so that a slot
\* no task contributed to receives what the scratch buffer buf held there
\* before the rearrangement.
RECURSIVE BackendUnmapped(_, _, _, _, _)
BackendUnmapped(dk, t, a, buf, nv) ==
    LET d == iodesc(a.ioid)
    IN IF nv > a.nvars \/ ~ioproc(t) \/ d.rearranger # "BOX" THEN dk
       ELSE LET v == Peek(a.varids, nv)
                f == FrameOf(a, nv)
                nd == IF v \in VarIds /\ f \in Frames
                      THEN [dk EXCEPT ![v][f] =
                              [g \in Slots |->
                                 IF g \in Unmapped(d)
                                 THEN Peek(buf, (nv - 1) * maxiobuflen(d) + g)
                                 ELSE @[g]]]
                      ELSE dk
            IN BackendUnmapped(nd, t, a, buf, nv + 1)

\* The same with DARRAY_FILL: an I/O task writes the fill value of each
\* variable into the holes of the decomposition.
RECURSIVE BackendFill(_, _, _, _)
BackendFill(dk, t, a, nv) ==
    IF nv > a.nvars \/ ~ioproc(t) THEN dk
    ELSE LET v == Peek(a.varids, nv)
             f == FrameOf(a, nv)
             nd == IF v \in VarIds /\ f \in Frames
                   THEN [dk EXCEPT ![v][f] =
                           [g \in Slots |->
                              IF g \in iodesc(a.ioid).holes
                              THEN Peek(a.fillvalue, nv) ELSE @[g]]]
                   ELSE dk
         IN BackendFill(nd, t, a, nv + 1)

Fail(s, code) == [s EXCEPT !.ret = code]

\* Argument checks that leave out the range test of the variable ids.
WM_CheckNoRange(s, a) ==
    IF a.nvars <= 0 \/ a.varids = << >> THEN Fail(s, "PIO_EINVAL")
    ELSE IF ~file.writable THEN Fail(s, "PIO_EPERM")
    ELSE IF a.ioid \notin IoIds THEN Fail(s, "PIO_EBADID")
    ELSE IF iodesc(a.ioid).rearranger \notin {"BOX", "SUBSET"} THEN Fail(s, "ABORT")
    ELSE s

\* Argument checks that leave out the test of the file mode.
WM_CheckNoMode(s, a) ==
    IF a.nvars <= 0 \/ a.varids = << >> THEN Fail(s, "PIO_EINVAL")
    ELSE IF \E v \in 1 .. a.nvars :
                Peek(a.varids, v) < 0 \/ Peek(a.varids, v) > PIO_MAX_VARS
         THEN Fail(s, "PIO_EINVAL")
    ELSE IF a.ioid \notin IoIds THEN Fail(s, "PIO_EBADID")
    ELSE IF iodesc(a.ioid).rearranger \notin {"BOX", "SUBSET"} THEN Fail(s, "ABORT")
    ELSE s

\* Lines 123-146: argument checks.
WM_Check(s, a) ==
    IF a.nvars <= 0 \/ a.varids = << >> THEN Fail(s, "PIO_EINVAL")
    ELSE IF \E v \in 1 .. a.nvars :
                Peek(a.varids, v) < 0 \/ Peek(a.varids, v) > PIO_MAX_VARS
         THEN Fail(s, "PIO_EINVAL")
    ELSE IF ~file.writable THEN Fail(s, "PIO_EPERM")
    ELSE IF a.ioid \notin IoIds THEN Fail(s, "PIO_EBADID")
    ELSE IF iodesc(a.ioid).rearranger \notin {"BOX", "SUBSET"} THEN Fail(s, "ABORT")
    ELSE s

\* Lines 151-156 and 219-222: the dimension inquiry, the forced flush of a
\* kept scratch buffer (its return value is dropped) and the assertion.
WM_Pre(s, a, inj) ==
    IF inj = "ndims" THEN Fail(s, "NC_ERR")
    ELSE LET s1 == IF file.iotype = "PNETCDF" /\ s.iobuf # 0
                   THEN flush_output_buffer(s, TRUE) ELSE s
         IN IF s1.iobuf # 0 THEN Fail(s1, "ABORT") ELSE s1

\* A pre-fill that copies the fill value of the first variable everywhere.
PrefillFirstValue(d, a) ==
    [k \in 1 .. maxiobuflen(d) * a.nvars |->
        IF d.needsfill /\ d.rearranger = "BOX"
        THEN Peek(a.fillvalue, 1) ELSE Uninit]

\* Lines 262-277: the elements of the scratch buffer once it is allocated.
\* Under the BOX rearranger with needsfill, element i of the segment of
\* variable nv receives fillvalue[nv]; otherwise nothing is written.
Prefill(d, a) ==
    [k \in 1 .. maxiobuflen(d) * a.nvars |->
        IF d.needsfill /\ d.rearranger = "BOX"
        THEN Peek(a.fillvalue, ((k - 1) \div maxiobuflen(d)) + 1) ELSE Uninit]

\* Lines 230 and 262-288: the scratch buffer.
WM_Iobuf(s, t, a, inj) ==
    LET d == iodesc(a.ioid)
        rlen == maxiobuflen(d) * a.nvars
        need == IF rlen > 0 THEN d.mpitype_size * rlen
                ELSE IF file.iotype = "PNETCDF" /\ ioproc(t) THEN 1 ELSE 0
    IN IF need = 0 THEN s
       ELSE IF inj = "iobuf" \/ ~Fits(s.curalloc, need) THEN Fail(s, "PIO_ENOMEM")
       ELSE [s EXCEPT !.iobuf = need, !.curalloc = @ + need,
                      !.ev.iobuf0 = IF rlen > 0 THEN Prefill(d, a) ELSE << >>]

\* Lines 291-292 and 366-383: rearrangement, then the backend writes.
WM_Write(s, t, a, inj, ub) ==
    IF inj = "rearr" THEN Fail(s, "REARR_ERR")
    ELSE IF ~ArgsInBounds(a) /\ ub = "crash" THEN Fail(s, "ABORT")
    ELSE IF file.iotype \notin {"NETCDF", "PNETCDF"}
         THEN Fail([s EXCEPT !.ev.rearr = @ + 1], "PIO_EBADIOTYPE")
    ELSE IF inj = "data" THEN Fail([s EXCEPT !.ev.rearr = @ + 1], "NC_ERR")
    ELSE [s EXCEPT !.ev.rearr = @ + 1, !.ev.data = @ + 1,
                   !.ev.modes = Append(@, "DATA"),
                   !.disk = BackendData(BackendUnmapped(s.disk, t, a, s.ev.iobuf0, 1),
                                        t, a, 1)]

\* A write that never gives the scratch buffer back.
WM_ReleaseNever(s) == s

\* Lines 386-395: the scratch buffer is released unless the backend keeps it.
WM_Release(s) ==
    IF file.iotype # "PNETCDF" /\ s.iobuf # 0
    THEN [s EXCEPT !.curalloc = @ - s.iobuf, !.iobuf = 0]
    ELSE s

\* A fill pass made whenever the decomposition needs fill values.
NeedsFillPassAny(d) == d.needsfill

\* Line 407: the decompositions the hole-fill pass is made for.
NeedsFillPass(d) == d.rearranger = "SUBSET" /\ d.needsfill

\* Lines 407-457: the hole-fill pass of a SUBSET decomposition.  The result
\* of bget is not tested; a fill buffer that could not be allocated is NULL.
WM_Fill(s, t, a, inj) ==
    LET d == iodesc(a.ioid)
        v0 == Peek(a.varids, 1)
        need == IF io_rank(t) = 0
                THEN maxholegridsize(d) * d.mpitype_size * a.nvars
                ELSE IF holegridsize(d, t) > 0
                     THEN holegridsize(d, t) * d.mpitype_size * a.nvars
                     ELSE 0
        got == IF Fits(s.curalloc, need) THEN need ELSE 0
        s1 == [s EXCEPT !.vdesc[v0].fillbuf = got, !.curalloc = @ + got]
    IN IF ~NeedsFillPass(d) THEN s
       ELSE IF s.vdesc[v0].fillbuf # 0 THEN Fail(s, "ABORT")
       ELSE IF inj = "fill" THEN Fail(s1, "NC_ERR")
       ELSE LET s2 == [s1 EXCEPT !.ev.fill = @ + 1,
                                 !.ev.modes = Append(@, "FILL"),
                                 !.disk = BackendFill(s1.disk, t, a, 1)]
            IN IF file.iotype # "PNETCDF"
               THEN [s2 EXCEPT !.curalloc = @ - got, !.vdesc[v0].fillbuf = 0]
               ELSE s2

\* Lines 463-481: completion.
WM_Complete(s, t, a, inj) ==
    IF ioproc(t) /\ file.iotype = "PNETCDF"
    THEN IF inj = "flushout" THEN Fail(s, "NC_ERR")
         ELSE flush_output_buffer(s, a.flushtodisk)
    ELSE [s EXCEPT !.wb_pend = 0,
                   !.vdesc = [v \in VarIds |->
                                IF \E i \in 1 .. a.nvars : a.varids[i] = v
                                THEN [s.vdesc[v] EXCEPT !.wb_pend = 0]
                                ELSE s.vdesc[v]]]

\* A step is taken only if no earlier step returned.
Ok(s) == s.ret = "PIO_NOERR"
Then(s, Step(_)) == IF Ok(s) THEN Step(s) ELSE s

PIOc_write_darray_multi(s, t, a, inj, ub) ==
    Then(Then(Then(Then(Then(Then(WM_Check(s, a),
        LAMBDA x : WM_Pre(x, a, inj)),
        LAMBDA x : WM_Iobuf(x, t, a, inj)),
        LAMBDA x : WM_Write(x, t, a, inj, ub)),
        LAMBDA x : WM_Release(x)),
        LAMBDA x : WM_Fill(x, t, a, inj)),
        LAMBDA x : WM_Complete(x, t, a, inj))

\* The state of task t as PIOc_write_darray_multi sees it.
TaskState(t) ==
    [ ret |-> "PIO_NOERR", curalloc |-> curalloc[t], iobuf |-> iobuf[t],
      vdesc |-> vdesc[t], wb_pend |-> wb_pend[t], disk |-> disk, ev |-> ev[t] ]

\* The arguments flush_buffer passes on for WMB w.
FlushArgs(w, flushtodisk) ==
    [ varids |-> w.vid, ioid |-> w.ioid, nvars |-> w.num_arrays,
      arraylen |-> w.arraylen, array |-> w.data, frame |-> w.frame,
      fillvalue |-> w.fillvalue, flushtodisk |-> flushtodisk ]

\* The WMB after PIOc_write_darray_multi returned r.
Flushed(t, w, r) ==
    IF ~Ok(r) THEN r @@ [ w |-> w ]
    ELSE [r EXCEPT !.curalloc = @ - WmbBytes(w, iodesc(w.ioid))]
         @@ [ w |-> [w EXCEPT !.num_arrays = 0, !.vid = << >>,
                              !.data = << >>, !.frame = << >>,
                              !.fillvalue = << >>, !.ent = << >>] ]

\* flush_buffer(ncid, wmb, flushtodisk): hand the queued arrays of the WMB
\* to PIOc_write_darray_multi and, once written, release them and reset the
\* WMB.  A WMB that holds nothing is left alone; a failed write leaves the
\* queued arrays in place.  The result has the fields of TaskState plus w
\* (the WMB afterwards).
flush_buffer(t, w, flushtodisk, inj, ub) ==
    IF w.num_arrays = 0
    THEN TaskState(t) @@ [ w |-> w ]
    ELSE Flushed(t, w, PIOc_write_darray_multi(TaskState(t), t,
                           FlushArgs(w, flushtodisk), inj, ub))
---------------------------------------------------------------------------
\* PIOc_write_darray (lines 635-948), one action per stretch of code between
\* two points where the task meets the others.

NoCall == [ op |-> "none", varid |-> 0, ioid |-> 0, extra |-> 0,
            fillvalue |-> "NULL", n |-> 0 ]

\* The calls a behaviour draws from: (varid, ioid, arraylen - ndof, whether
\* a fill value is passed).
CallInputs ==
    { << 0, 0, 1, "NULL" >>, << 1, 0, 0, "NULL" >>, << 2, 0, 0, "NULL" >>,
      << 1, 1, 0, "given" >>, << 2, 1, 0, "NULL" >>, << 1, 0, -1, "NULL" >> }

\* The arraylen task t passes, and the array it passes.
arraylen(t) == ndof(iodesc(cur.ioid), t) + cur.extra
UserArray(t) == [i \in 1 .. arraylen(t) |-> Elem(cur.n, t, i)]

\* An arraylen that was too large is cut down to ndof.
ClipLenNever(alen, nd) == alen

\* Lines 692-693: an arraylen larger than ndof is cut down to ndof.
ClipLen(alen, nd) == IF alen > nd THEN nd ELSE alen

\* The length the call queues on task t, and the elements it queues.
QueuedLen(t) == ClipLen(arraylen(t), ndof(iodesc(cur.ioid), t))
QueuedArray(t) == SubSeq(UserArray(t), 1, ndof(iodesc(cur.ioid), t))

AllIdle == \A t \in Tasks : at[t] = "idle"

\* What a task has done so far in the call: the steps it took in order, the
\* flush_buffer call it made ("io" or "disk", "skip" if it made none), the
\* calls whose arrays that flush handed over, the number of rearrangements
\* and backend writes, the sub-operations that failed on the task, the modes
\* of the backend calls in order, and the elements of iobuf as they were
\* when the rearrangement started.
NoEvents == [ steps |-> << >>, flushcall |-> "none", flushed |-> {},
              rearr |-> 0, data |-> 0, fill |-> 0, failed |-> {},
              modes |-> << >>, iobuf0 |-> << >> ]

\* The pool bytes held by scratch buffers of task t.
Scratch(t) == iobuf[t] + SetSum([v \in VarIds |-> vdesc[t][v].fillbuf], VarIds)

NoDecision == [ code |-> 0, fn |-> 0, cap |-> FALSE ]

\* All compute tasks enter PIOc_write_darray with the same arguments.
StartWrite(c) ==
    /\ AllIdle
    /\ ncalls < MaxCalls
    /\ cur' = [ op |-> "write", varid |-> c[1], ioid |-> c[2], extra |-> c[3],
                fillvalue |-> c[4], n |-> ncalls + 1 ]
    /\ ncalls' = ncalls + 1
    /\ at' = [t \in Tasks |-> "enter"]
    /\ ierr' = [t \in Tasks |-> "PIO_NOERR"]
    /\ pre' = [t \in Tasks |-> [ buffer |-> buffer[t], curalloc |-> curalloc[t],
                                 scratch |-> Scratch(t) ]]
    /\ ev' = [t \in Tasks |-> NoEvents]
    /\ array' = << >>
    /\ needsflush' = [t \in Tasks |-> 0]
    /\ localflush' = [t \in Tasks |-> NoDecision]
    /\ wmbp' = [t \in Tasks |-> 1]
    /\ UNCHANGED << pio_buffer_size_limit, file, nfail, buffer, curalloc, iobuf,
                    vdesc, wb_pend, disk >>
    /\ hist' = [hist EXCEPT !.w[c[1]] = [ n |-> ncalls + 1, ioid |-> c[2] ]]
    /\ UNCHANGED << swapmVars, setlimit, spmdVars >>

\* A task leaves the call with return code code.
Return(t, code) ==
    /\ at' = [at EXCEPT ![t] = "idle"]
    /\ ierr' = [ierr EXCEPT ![t] = code]

\* Lines 664-761: checks, lookup or creation of the WMB, local decision.
Enter(t) ==
    LET d == iodesc(cur.ioid)
        len == ClipLen(arraylen(t), ndof(d, t))
        recordvar == IF record(cur.varid) >= 0 THEN 1 ELSE 0
        i == FindWmb(buffer[t], 1, cur.ioid, recordvar)
        found == WmbMatches(buffer[t][i], cur.ioid, recordvar)
        chain == IF found THEN buffer[t]
                 ELSE Append(buffer[t], NewWmb(cur.ioid, recordvar, len))
        k == IF found THEN i ELSE Len(chain)
        fn == PIO_wmb_needs_flush(chain[k], len, d, curalloc[t])
        code == LocalDecision(chain[k], len, d, curalloc[t])
    IN /\ at[t] = "enter"
       /\ IF ~file.writable
          THEN Return(t, "PIO_EPERM")
               /\ UNCHANGED << buffer, wmbp, needsflush, localflush >>
          ELSE IF cur.ioid \notin IoIds
          THEN Return(t, "PIO_EBADID")
               /\ UNCHANGED << buffer, wmbp, needsflush, localflush >>
          ELSE IF arraylen(t) < ndof(d, t)
          THEN Return(t, "PIO_EINVAL")
               /\ UNCHANGED << buffer, wmbp, needsflush, localflush >>
          ELSE /\ buffer' = [buffer EXCEPT ![t] = chain]
               /\ wmbp' = [wmbp EXCEPT ![t] = k]
               /\ needsflush' = [needsflush EXCEPT ![t] = code]
               /\ localflush' = [localflush EXCEPT ![t] =
                                   [ code |-> code, fn |-> fn,
                                     cap |-> RegionCap(chain[k], d) ]]
               /\ at' = [at EXCEPT ![t] = "allreduce"]
               /\ UNCHANGED ierr
       /\ ev' = [ev EXCEPT ![t].steps =
                   IF file.writable /\ cur.ioid \in IoIds /\ arraylen(t) >= ndof(d, t)
                   THEN Append(@, "decision") ELSE @]
       /\ UNCHANGED << pio_buffer_size_limit, file, cur, ncalls, nfail, curalloc,
                       iobuf, vdesc, wb_pend, disk, hist, array, pre >>
       /\ UNCHANGED << swapmVars, setlimit, spmdVars >>

\* Lines 765-767: the all-reduce of the flush code over comp_comm.  It
\* completes when every compute task of the communicator has entered it.
Allreduce(ok) ==
    /\ \A t \in Tasks : at[t] = "allreduce"
    /\ ok \/ (nfail < MaxFail /\ \E t \in Tasks : buffer[t][wmbp[t]].num_arrays > 0)
    /\ IF ok
       THEN /\ needsflush' = Allreduce_MAX(needsflush)
            /\ at' = [t \in Tasks |-> "flush"]
            /\ UNCHANGED << ierr, nfail >>
       ELSE /\ at' = [t \in Tasks |-> "idle"]
            /\ ierr' = [t \in Tasks |-> "PIO_EIO"]
            /\ nfail' = nfail + 1
            /\ UNCHANGED needsflush
    /\ ev' = [t \in Tasks |->
                [ev[t] EXCEPT !.steps = Append(@, "allreduce"),
                              !.failed = IF ok THEN @ ELSE @ \cup {"allreduce"}]]
    /\ UNCHANGED << pio_buffer_size_limit, file, cur, ncalls, localflush, wmbp,
                    buffer, curalloc, iobuf, vdesc, wb_pend, disk,
                    hist, array, pre >>
    /\ UNCHANGED << swapmVars, setlimit, spmdVars >>

\* calc_var_rec_sz: the size in bytes of one record of the variable.
calc_var_rec_sz(varid) == 8 * (varid + 1)

\* Lines 770-780: the record size is computed once per variable.  When
\* calc_var_rec_sz fails (inj = "recsz") the failure is logged, the size
\* stays 0 and the call goes on.
WithRecSz(vd, varid, inj) ==
    IF vd[varid].vrsize = 0 /\ inj # "recsz"
    THEN [vd EXCEPT ![varid].vrsize = calc_var_rec_sz(varid)]
    ELSE vd

\* The sub-operation an injected failure has hit.
Failed(inj) == IF inj = "none" THEN {} ELSE {inj}

\* Failures are injected into a task that holds queued arrays, MaxFail
\* times at most.
Queued(t) == \E i \in 1 .. Len(buffer[t]) : buffer[t][i].num_arrays > 0
CanFail(t) == nfail < MaxFail /\ Queued(t)

\* The backend of task t has been handed the arrays queued in w: of each
\* variable the last one queued is the one the file holds now.
Written(h, t, w) ==
    LET has(v) == \E k \in 1 .. Len(w.ent) : w.ent[k].varid = v
        lastn(v) == LET k == CHOOSE j \in 1 .. Len(w.ent) :
                                /\ w.ent[j].varid = v
                                /\ \A i \in (j + 1) .. Len(w.ent) : w.ent[i].varid # v
                    IN w.ent[k].n
    IN [h EXCEPT !.onfile = [v \in VarIds |-> IF has(v) THEN lastn(v) ELSE @[v]],
                 !.wrote[t] = [v \in VarIds |-> IF has(v) THEN lastn(v) ELSE @[v]]]

\* Lines 770-802: record size, then the flush if the agreed code asks for it.
\* r is what flush_buffer returns, r0 what it returns when nothing fails.
FlushStep(t, inj, ub, w, r, r0) ==
    /\ at[t] = "flush"
    /\ inj \in InjWrite => CanFail(t) /\ needsflush[t] > 0 /\ w.num_arrays > 0
                            /\ Ok(r0) /\ ~Ok(r)
    /\ inj = "recsz" => nfail < MaxFail /\ vdesc[t][cur.varid].vrsize = 0
    /\ ub = "crash" => needsflush[t] > 0 /\ w.num_arrays > 0
                        /\ ~ArgsInBounds(FlushArgs(w, FALSE))
    /\ nfail' = IF inj = "none" THEN nfail ELSE nfail + 1
    /\ IF needsflush[t] > 0
       THEN /\ buffer' = [buffer EXCEPT ![t][wmbp[t]] = r.w]
            /\ curalloc' = [curalloc EXCEPT ![t] = r.curalloc]
            /\ iobuf' = [iobuf EXCEPT ![t] = r.iobuf]
            /\ vdesc' = [vdesc EXCEPT ![t] = WithRecSz(r.vdesc, cur.varid, inj)]
            /\ wb_pend' = [wb_pend EXCEPT ![t] = r.wb_pend]
            /\ disk' = r.disk
            /\ hist' = IF r.ev.data > ev[t].data THEN Written(hist, t, w) ELSE hist
            /\ ev' = [ev EXCEPT ![t] =
                        [r.ev EXCEPT !.steps = Append(@, "flush"),
                                     !.flushcall = IF needsflush[t] = 2 THEN "disk" ELSE "io",
                                     !.flushed = {w.ent[k].n : k \in 1 .. Len(w.ent)},
                                     !.failed = @ \cup Failed(inj)]]
            /\ at' = [at EXCEPT ![t] = IF Ok(r) THEN "append"
                                       ELSE IF r.ret = "ABORT" THEN "aborted"
                                       ELSE "idle"]
            /\ ierr' = [ierr EXCEPT ![t] = r.ret]
       ELSE /\ vdesc' = [vdesc EXCEPT ![t] = WithRecSz(vdesc[t], cur.varid, inj)]
            /\ at' = [at EXCEPT ![t] = "append"]
            /\ ev' = [ev EXCEPT ![t].flushcall = "skip",
                                ![t].failed = @ \cup Failed(inj)]
            /\ UNCHANGED << buffer, curalloc, iobuf, wb_pend, disk, hist, ierr >>
    /\ UNCHANGED << pio_buffer_size_limit, file, cur, ncalls, needsflush,
                    localflush, wmbp, array, pre >>
    /\ UNCHANGED << swapmVars, setlimit, spmdVars >>

Flush(t, inj, ub) ==
    FlushStep(t, inj, ub, buffer[t][wmbp[t]],
              flush_buffer(t, buffer[t][wmbp[t]], needsflush[t] = 2, inj, ub),
              flush_buffer(t, buffer[t][wmbp[t]], needsflush[t] = 2, "none", ub))

\* Lines 818-947 as a function of the WMB and the pool: x is a record with
\* the fields ret, w and curalloc.
InjAppend == {"data", "vid", "frame", "fillvalue"}

\* Lines 820-825: room for one more array.  bgetr gets the new block before
\* it gives up the old one; when it fails the old block stays allocated and
\* the pointer to it is overwritten with NULL.
A_Data(x, len, sz, inj) ==
    LET need == (1 + x.w.num_arrays) * len * sz
    IN IF len <= 0 THEN x
       ELSE IF inj = "data" \/ ~Fits(x.curalloc, need)
       THEN [x EXCEPT !.ret = "PIO_ENOMEM", !.w.data = << >>]
       ELSE [x EXCEPT !.w.data = Grow(@, (1 + x.w.num_arrays) * len),
                      !.curalloc = @ + need - Len(x.w.data) * sz]

\* Line 829.
A_Vid(x, inj) ==
    IF inj = "vid" THEN [x EXCEPT !.ret = "PIO_ENOMEM", !.w.vid = << >>]
    ELSE [x EXCEPT !.w.vid = Grow(@, 1 + x.w.num_arrays)]

\* Lines 835-837.
A_Frame(x, rec, inj) ==
    IF rec < 0 THEN x
    ELSE IF inj = "frame" THEN [x EXCEPT !.ret = "PIO_ENOMEM", !.w.frame = << >>]
    ELSE [x EXCEPT !.w.frame = Grow(@, 1 + x.w.num_arrays)]

\* Lines 839-909: the fill value of this array.
A_Fill(x, d, varid, fillvalue, inj) ==
    LET need == d.mpitype_size * (1 + x.w.num_arrays)
        grown == Grow(x.w.fillvalue, 1 + x.w.num_arrays)
        c == x.curalloc + need - Len(x.w.fillvalue) * d.mpitype_size
    IN IF ~d.needsfill THEN x
       ELSE IF inj = "fillvalue" \/ ~Fits(x.curalloc, need)
       THEN [x EXCEPT !.ret = "PIO_ENOMEM", !.w.fillvalue = << >>]
       ELSE IF fillvalue = "given"
       THEN [x EXCEPT !.curalloc = c,
                      !.w.fillvalue = [grown EXCEPT ![1 + x.w.num_arrays] = UserFill(varid)]]
       ELSE IF d.mpitype \in KnownTypes
       THEN [x EXCEPT !.curalloc = c,
                      !.w.fillvalue = [grown EXCEPT ![1 + x.w.num_arrays] = DefaultFill]]
       ELSE [x EXCEPT !.curalloc = c, !.w.fillvalue = grown, !.ret = "PIO_EBADTYPE"]

\* A copy that overwrites the first queued array.
A_CopyFirst(x, len, varid, rec, arr, e) ==
    [x EXCEPT !.w.arraylen = len,
              !.w.vid[1] = varid,
              !.w.data = [i \in 1 .. Len(@) |-> IF i <= len THEN arr[i] ELSE @[i]],
              !.w.num_arrays = @ + 1,
              !.w.ent = Append(@, e)]

\* Lines 912-930: the array joins the WMB.
A_Copy(x, len, varid, rec, arr, e) ==
    LET n == x.w.num_arrays
    IN [x EXCEPT !.w.arraylen = len,
                 !.w.vid[n + 1] = varid,
                 !.w.data = [i \in 1 .. Len(@) |->
                               IF i > n * len /\ i <= (n + 1) * len
                               THEN arr[i - n * len] ELSE @[i]],
                 !.w.frame = IF @ # << >> THEN [@ EXCEPT ![n + 1] = rec] ELSE @,
                 !.w.num_arrays = n + 1,
                 !.w.ent = Append(@, e)]

\* What is remembered of the array queued by this call.
Entry(t) ==
    [ n |-> cur.n, varid |-> cur.varid, frame |-> record(cur.varid),
      ioid |-> cur.ioid, recordvar |-> IF record(cur.varid) >= 0 THEN 1 ELSE 0,
      arraylen |-> QueuedLen(t), array |-> QueuedArray(t),
      fill |-> IF cur.fillvalue = "given" THEN UserFill(cur.varid)
               ELSE DefaultFill ]

AppendSteps(x, t, inj) ==
    Then(Then(Then(Then(
        A_Data(x, QueuedLen(t), iodesc(cur.ioid).mpitype_size, inj),
        LAMBDA y : A_Vid(y, inj)),
        LAMBDA y : A_Frame(y, record(cur.varid), inj)),
        LAMBDA y : A_Fill(y, iodesc(cur.ioid), cur.varid, cur.fillvalue, inj)),
        LAMBDA y : A_Copy(y, QueuedLen(t), cur.varid,
                          record(cur.varid), UserArray(t), Entry(t)))

\* The WMB and the pool as the append finds them.
AppendStart(t) ==
    [ ret |-> "PIO_NOERR", w |-> buffer[t][wmbp[t]], curalloc |-> curalloc[t] ]

\* Lines 805-947: the pending counters grow, then the array is appended.
\* r is the outcome of the append, r0 its outcome when nothing fails.
AppendStep(t, inj, r, r0) ==
    /\ at[t] = "append"
    /\ inj # "none" => CanFail(t) /\ Ok(r0) /\ ~Ok(r)
    /\ nfail' = IF inj = "none" THEN nfail ELSE nfail + 1
    /\ vdesc' = [vdesc EXCEPT ![t][cur.varid].wb_pend = @ + vdesc[t][cur.varid].vrsize]
    /\ wb_pend' = [wb_pend EXCEPT ![t] = @ + vdesc[t][cur.varid].vrsize]
    /\ buffer' = [buffer EXCEPT ![t][wmbp[t]] = r.w]
    /\ curalloc' = [curalloc EXCEPT ![t] = r.curalloc]
    /\ Return(t, r.ret)
    /\ ev' = [ev EXCEPT ![t].steps = IF Ok(r) THEN Append(@, "append") ELSE @,
                        ![t].failed = @ \cup Failed(inj)]
    /\ UNCHANGED << pio_buffer_size_limit, file, cur, ncalls, needsflush,
                    localflush, wmbp, iobuf, disk, array, pre >>
    /\ hist' = IF Ok(r)
               THEN [hist EXCEPT !.app[t][cur.varid] =
                       [ n |-> cur.n, array |-> QueuedArray(t) ]]
               ELSE hist
    /\ UNCHANGED << swapmVars, setlimit, spmdVars >>

AppendArray(t, inj) ==
    AppendStep(t, inj, AppendSteps(AppendStart(t), t, inj),
               AppendSteps(AppendStart(t), t, "none"))

\* PIOc_read_darray (lines 967-1065) on one task.  The scratch buffer of an
\* I/O task is taken from the pool and given back before the return; the
\* read counters rb_pend are zero again on return and are left out.
read_darray(t, varid, ioid) ==
    LET d == iodesc(ioid)
        rlen == llen(d, t)
        nomem == ioproc(t) /\ rlen > 0 /\ ~Fits(curalloc[t], d.mpitype_size * rlen)
    IN [ ret |-> IF nomem THEN "PIO_ENOMEM" ELSE "PIO_NOERR",
         data |-> IF nomem THEN << >>
                  ELSE [i \in 1 .. ndof(d, t) |->
                          disk[varid][record(varid)][d.map[t][i]]] ]

\* All compute tasks call PIOc_read_darray, outside any write call, for a
\* variable they have written before (so that its record size is known).
PIOc_read_darray(varid, ioid) ==
    /\ AllIdle
    /\ \A t \in Tasks : vdesc[t][varid].vrsize # 0
    /\ array = << >>
    /\ array' = [ varid |-> varid, ioid |-> ioid,
                  out |-> [t \in Tasks |-> read_darray(t, varid, ioid)] ]
    /\ UNCHANGED << pio_buffer_size_limit, file, cur, ncalls, nfail, at,
                    needsflush, localflush, wmbp, ierr, buffer, curalloc,
                    iobuf, vdesc, wb_pend, disk, hist, pre, ev >>
    /\ UNCHANGED << swapmVars, setlimit, spmdVars >>

\* No PIOc_set_buffer_size_limit call has been made: setlimit.calls holds
\* the arguments of the calls in order, setlimit.oldsize what the last call
\* returned.
NoLimitCall == [ calls |-> << >>, oldsize |-> 0 ]

\* A setter that returns the limit it leaves in force.
set_limit_returns_new(limit) ==
    /\ AllIdle
    /\ pio_buffer_size_limit' = IF limit > 0 THEN limit ELSE pio_buffer_size_limit
    /\ setlimit' = [ calls |-> Append(setlimit.calls, limit),
                     oldsize |-> pio_buffer_size_limit' ]
    /\ UNCHANGED << file, cur, ncalls, nfail, at, needsflush, localflush, wmbp,
                    ierr, buffer, curalloc, iobuf, vdesc, wb_pend, disk, hist,
                    array, pre, ev >>
    /\ UNCHANGED << swapmVars, spmdVars >>

\* PIOc_set_buffer_size_limit (lines 41-50): oldsize, the value returned, is
\* the limit read before the assignment.
PIOc_set_buffer_size_limit(limit) ==
    /\ AllIdle
    /\ pio_buffer_size_limit' = IF limit > 0 THEN limit ELSE pio_buffer_size_limit
    /\ setlimit' = [ calls |-> Append(setlimit.calls, limit),
                     oldsize |-> pio_buffer_size_limit ]
    /\ UNCHANGED << file, cur, ncalls, nfail, at, needsflush, localflush, wmbp,
                    ierr, buffer, curalloc, iobuf, vdesc, wb_pend, disk, hist,
                    array, pre, ev >>
    /\ UNCHANGED << swapmVars, spmdVars >>

\* No exchange runs while the write path alone is studied.
SwapmUnused ==
    /\ handshake = FALSE /\ isend = FALSE /\ max_requests = 0
    /\ sndlths = << >> /\ pc = << >> /\ istep = << >> /\ rstep = << >>
    /\ rcvids = << >> /\ hs_rcvids = << >> /\ sndids = << >>
    /\ rcvbuf = << >> /\ msgs = {} /\ rsend_err = FALSE /\ crossed = FALSE
    /\ mpierr = << >> /\ swapm_ret = << >>

Files == { [ iotype |-> "NETCDF", writable |-> TRUE ],
           [ iotype |-> "PNETCDF", writable |-> TRUE ],
           [ iotype |-> "NETCDF", writable |-> FALSE ] }

EmptyDisk == [v \in VarIds |-> [f \in Frames |-> [g \in Slots |-> 0]]]

\* Nothing has been written: hist.w[v] is the latest PIOc_write_darray call
\* for variable v and its decomposition, hist.app[t][v] the latest array of v
\* task t queued, hist.wrote[t][v] the call whose array of v the backend of
\* task t was handed last, hist.onfile[v] the same over all tasks.
NoHistory ==
    [ w |-> [v \in VarIds |-> [ n |-> 0, ioid |-> 0 ]],
      onfile |-> [v \in VarIds |-> 0],
      app |-> [t \in Tasks |-> [v \in VarIds |-> [ n |-> 0, array |-> << >> ]]],
      wrote |-> [t \in Tasks |-> [v \in VarIds |-> 0]] ]

\* A file has just been created; other users may hold part of task 0's pool.
InitDarray ==
    /\ pio_buffer_size_limit = InitialLimit
    /\ file \in Files
    /\ cur = NoCall
    /\ ncalls = 0
    /\ nfail = 0
    /\ at = [t \in Tasks |-> "idle"]
    /\ needsflush = [t \in Tasks |-> 0]
    /\ localflush = [t \in Tasks |-> NoDecision]
    /\ wmbp = [t \in Tasks |-> 1]
    /\ ierr = [t \in Tasks |-> "PIO_NOERR"]
    /\ buffer = [t \in Tasks |-> << HeadWmb >>]
    /\ curalloc \in { [t \in Tasks |-> 0],
                      [t \in Tasks |-> IF t = 0 THEN OtherBytes ELSE 0] }
    /\ iobuf = [t \in Tasks |-> 0]
    /\ vdesc = [t \in Tasks |-> [v \in VarIds |->
                  [ vrsize |-> 0, wb_pend |-> 0, fillbuf |-> 0 ]]]
    /\ wb_pend = [t \in Tasks |-> 0]
    /\ disk = EmptyDisk
    /\ hist = NoHistory
    /\ array = << >>
    /\ pre = [t \in Tasks |-> [ buffer |-> buffer[t], curalloc |-> curalloc[t],
                                scratch |-> 0 ]]
    /\ ev = [t \in Tasks |-> NoEvents]
    /\ setlimit = NoLimitCall

Init == InitDarray /\ SwapmUnused /\ SpmdUnused

\* The write path with injected failures.  The limit is lowered once at
\* most, and reads use the decompositions the writes use.
Next ==
    \/ \E c \in CallInputs : StartWrite(c)
    \/ \E t \in Tasks : Enter(t)
    \/ \E ok \in BOOLEAN : Allreduce(ok)
    \/ \E t \in Tasks, inj \in InjWrite \cup {"none", "recsz"}, ub \in {"garbage", "crash"} :
          Flush(t, inj, ub)
    \/ \E t \in Tasks, inj \in InjAppend \cup {"none"} : AppendArray(t, inj)
    \/ \E varid \in VarIds, ioid \in {0, 1} : PIOc_read_darray(varid, ioid)
    \/ \E limit \in {SmallLimit} :
          setlimit = NoLimitCall /\ PIOc_set_buffer_size_limit(limit)

Spec == Init /\ [][Next]_vars


---------------------------------------------------------------------------
\* PIOc_write_darray_multi (lines 106-487) called by the application itself.

\* The calls a behaviour draws from: (nvars, varids, ioid, flushtodisk).
\* ioid 5 names no decomposition.
MultiInputs ==
    { << 0, << 1 >>, 0, FALSE >>,     << -1, << 1 >>, 5, FALSE >>,
      << 1, << >>, 0, FALSE >>,       << 1, << -1 >>, 0, FALSE >>,
      << 2, << 1, 4 >>, 2, FALSE >>,  << 1, << 1 >>, 0, TRUE >>,
      << 2, << 1, 2 >>, 1, FALSE >>,  << 1, << 0 >>, 2, FALSE >>,
      << 1, << 2 >>, 5, FALSE >>,     << 2, << 1, 2 >>, 3, FALSE >>,
      << 1, << 0 >>, 4, FALSE >> }

\* The arguments task t passes in call number n: arraylen is the ndof of the
\* task, array holds nvars arrays of that length, frame is NULL unless every
\* variable is a record variable, and fillvalue holds one value per variable
\* when the decomposition needs them.
MultiArgs(t, c, n) ==
    LET cnt == IF c[1] > 0 THEN c[1] ELSE 0
        len == IF c[3] \in IoIds THEN ndof(iodesc(c[3]), t) ELSE 0
    IN [ varids |-> c[2], ioid |-> c[3], nvars |-> c[1], arraylen |-> len,
         array |-> [k \in 1 .. cnt * len |-> Elem(n, t, k)],
         frame |-> IF \A k \in 1 .. Len(c[2]) : record(c[2][k]) >= 0
                   THEN [k \in 1 .. Len(c[2]) |-> record(c[2][k])]
                   ELSE << >>,
         fillvalue |-> IF c[3] \in IoIds /\ iodesc(c[3]).needsfill
                       THEN [k \in 1 .. cnt |-> UserFill(k)]
                       ELSE << >>,
         flushtodisk |-> c[4] ]

\* All compute tasks call PIOc_write_darray_multi with the same arguments.
StartMulti(c) ==
    /\ AllIdle
    /\ ncalls < MaxCalls
    /\ cur' = [ op |-> "multi", nvars |-> c[1], varids |-> c[2], ioid |-> c[3],
                flushtodisk |-> c[4], n |-> ncalls + 1 ]
    /\ ncalls' = ncalls + 1
    /\ at' = [t \in Tasks |-> "multi"]
    /\ ierr' = [t \in Tasks |-> "PIO_NOERR"]
    /\ pre' = [t \in Tasks |-> [ buffer |-> buffer[t], curalloc |-> curalloc[t],
                                 scratch |-> Scratch(t) ]]
    /\ ev' = [t \in Tasks |-> NoEvents]
    /\ array' = << >>
    /\ UNCHANGED << pio_buffer_size_limit, file, nfail, needsflush, localflush,
                    wmbp, buffer, curalloc, iobuf, vdesc, wb_pend, disk, hist >>
    /\ UNCHANGED << swapmVars, setlimit, spmdVars >>

\* The call on task t; r is what PIOc_write_darray_multi leaves behind.  A
\* failed assertion ends the program on the task.
MultiStep(t, r) ==
    /\ at[t] = "multi"
    /\ at' = [at EXCEPT ![t] = IF r.ret = "ABORT" THEN "aborted" ELSE "idle"]
    /\ ierr' = [ierr EXCEPT ![t] = r.ret]
    /\ curalloc' = [curalloc EXCEPT ![t] = r.curalloc]
    /\ iobuf' = [iobuf EXCEPT ![t] = r.iobuf]
    /\ vdesc' = [vdesc EXCEPT ![t] = r.vdesc]
    /\ wb_pend' = [wb_pend EXCEPT ![t] = r.wb_pend]
    /\ disk' = r.disk
    /\ ev' = [ev EXCEPT ![t] = r.ev]
    /\ UNCHANGED << pio_buffer_size_limit, file, cur, ncalls, nfail, needsflush,
                    localflush, wmbp, buffer, hist, array, pre >>
    /\ UNCHANGED << swapmVars, setlimit, spmdVars >>

RunMulti(t) ==
    MultiStep(t, PIOc_write_darray_multi(TaskState(t), t,
                    MultiArgs(t, << cur.nvars, cur.varids, cur.ioid,
                                    cur.flushtodisk >>, cur.n),
                    "none", "garbage"))

\* The write calls of the interface, made in any order and without injected
\* failures.
NextApi ==
    \/ \E c \in CallInputs : StartWrite(c)
    \/ \E t \in Tasks : Enter(t)
    \/ Allreduce(TRUE)
    \/ \E t \in Tasks : Flush(t, "none", "garbage")
    \/ \E t \in Tasks : AppendArray(t, "none")
    \/ \E c \in MultiInputs : StartMulti(c)
    \/ \E t \in Tasks : RunMulti(t)

SpecApi == Init /\ [][NextApi]_vars

\* PIOc_set_buffer_size_limit alone, called MaxLimitCalls times at most with
\* any argument.
MaxLimitCalls == 3
LimitChoices == -2 .. 5

NextLimit ==
    \E limit \in LimitChoices :
        Len(setlimit.calls) < MaxLimitCalls /\ PIOc_set_buffer_size_limit(limit)

SpecLimit == Init /\ [][NextLimit]_vars

---------------------------------------------------------------------------
\* PIOc_write_darray_multi on an async IO system (lines 162-216): task 0 is
\* the I/O task and runs the function from its message handler, the other
\* tasks are compute tasks, the first of them being the root of the
\* computation component.

\* ios->comproot, and ios->compmaster == MPI_ROOT on task t.
comproot == 1
compmaster(t) == t = comproot

\* The calls: (nvars, varids, ioid, flushtodisk).  frame is passed when all
\* the variables are record variables and fillvalue when the decomposition
\* needs fill values, so that the four combinations occur.
AsyncInputs ==
    { << 1, << 0 >>, 0, FALSE >>,     << 1, << 1 >>, 0, TRUE >>,
      << 1, << 0 >>, 1, FALSE >>,     << 2, << 1, 2 >>, 3, FALSE >> }

\* Parameter broadcasts made in the order ioid, varids.
ParamCallsSwapped(t, a) ==
    (IF compmaster(t) THEN << "msg" >> ELSE << >>)
    \o << "ncid", "nvars", "ioid", "varids", "arraylen", "array",
          "frame_present" >>
    \o (IF a.frame # << >> THEN << "frame" >> ELSE << >>)
    \o << "fillvalue_present" >>
    \o (IF a.fillvalue # << >> THEN << "fillvalue" >> ELSE << >>)
    \o << "flushtodisk" >>

\* Lines 166-201: the MPI calls a compute task makes to hand the parameters
\* to the I/O tasks when none of them fails: the message tag (sent by the
\* root only), then one MPI_Bcast per parameter.
ParamCalls(t, a) ==
    (IF compmaster(t) THEN << "msg" >> ELSE << >>)
    \o << "ncid", "nvars", "varids", "ioid", "arraylen", "array",
          "frame_present" >>
    \o (IF a.frame # << >> THEN << "frame" >> ELSE << >>)
    \o << "fillvalue_present" >>
    \o (IF a.fillvalue # << >> THEN << "fillvalue" >> ELSE << >>)
    \o << "flushtodisk" >>

\* The calls made when call number failat returns an error (0: none does):
\* every later call is skipped (if (!mpierr) ...).
ParamsSent(t, a, failat) ==
    IF failat = 0 THEN ParamCalls(t, a)
    ELSE SubSeq(ParamCalls(t, a), 1, failat)

\* All tasks enter PIOc_write_darray_multi on an async system.
StartMultiAsync(c) ==
    /\ AllIdle
    /\ ncalls < MaxCalls
    /\ cur' = [ op |-> "multi", nvars |-> c[1], varids |-> c[2], ioid |-> c[3],
                flushtodisk |-> c[4], n |-> ncalls + 1, async |-> TRUE ]
    /\ ncalls' = ncalls + 1
    /\ at' = [t \in Tasks |-> "async"]
    /\ ierr' = [t \in Tasks |-> "PIO_NOERR"]
    /\ pre' = [t \in Tasks |-> [ buffer |-> buffer[t], curalloc |-> curalloc[t],
                                 scratch |-> Scratch(t) ]]
    /\ ev' = [t \in Tasks |-> NoEvents]
    /\ array' = << >>
    /\ UNCHANGED << pio_buffer_size_limit, file, nfail, needsflush, localflush,
                    wmbp, buffer, curalloc, iobuf, vdesc, wb_pend, disk, hist >>
    /\ UNCHANGED << swapmVars, setlimit, spmdVars >>

\* Task t after the block: sent are the calls it made, err whether it
\* returns an MPI error after the broadcast of line 206, failed the calls
\* of its own that reported an error.
AsyncStep(t, sent, err, failed) ==
    /\ at' = [at EXCEPT ![t] = IF err THEN "idle" ELSE "multi"]
    /\ ierr' = [ierr EXCEPT ![t] = IF err THEN "PIO_EIO" ELSE @]
    /\ ev' = [ev EXCEPT ![t].steps =
                 sent \o (IF err THEN << "mpierr" >> ELSE << "mpierr", "fndims" >>),
                        ![t].failed = failed]
    /\ nfail' = IF failed # {} THEN nfail + 1 ELSE nfail

\* Lines 162-216 on task t.  A call the argument checks of lines 123-146
\* reject returns before the block.  A compute task sends the parameters
\* (call number failat fails, if not 0); every task then receives mpierr
\* from the root of the computation component and returns the error if
\* there is one or if this broadcast fails (late = "mpierr"), and receives
\* fndims otherwise; an error of that last broadcast (late = "fndims") is
\* passed to check_mpi and not returned.
AsyncBlock(t, failat, late) ==
    /\ at[t] = "async"
    /\ LET a == MultiArgs(t, << cur.nvars, cur.varids, cur.ioid,
                               cur.flushtodisk >>, cur.n)
           rooterr == IF compmaster(t) THEN failat # 0
                      ELSE "bcast" \in ev[comproot].failed
       IN IF ~Ok(WM_Check(TaskState(t), a))
          THEN /\ failat = 0 /\ late = "none"
               /\ at' = [at EXCEPT ![t] = "multi"]
               /\ UNCHANGED << ierr, ev, nfail >>
          ELSE /\ compmaster(t) \/ at[comproot] # "async"
               /\ failat # 0 =>
                     /\ ~ioproc(t) /\ nfail < MaxFail /\ late = "none"
                     /\ failat <= Len(ParamCalls(t, a))
               /\ late # "none" => nfail < MaxFail
               /\ late = "fndims" => ~rooterr
               /\ AsyncStep(t,
                            IF ioproc(t) THEN << >> ELSE ParamsSent(t, a, failat),
                            rooterr \/ late = "mpierr",
                            IF failat # 0 THEN {"bcast"}
                            ELSE IF late # "none" THEN {late} ELSE {})
    /\ UNCHANGED << pio_buffer_size_limit, file, cur, ncalls, needsflush,
                    localflush, wmbp, buffer, curalloc, iobuf, vdesc, wb_pend,
                    disk, hist, array, pre >>
    /\ UNCHANGED << swapmVars, setlimit, spmdVars >>

\* Number of MPI calls of the parameter block at most.
MaxParamCalls == 12

NextAsync ==
    \/ \E c \in AsyncInputs : StartMultiAsync(c)
    \/ \E t \in Tasks, failat \in 0 .. MaxParamCalls,
          late \in {"none", "mpierr", "fndims"} : AsyncBlock(t, failat, late)
    \/ \E t \in Tasks : RunMulti(t)

SpecAsync == Init /\ [][NextAsync]_vars

(***************************************************************************)
(*          Part III : other routines of pio_spmd.c                        *)
(***************************************************************************)

---------------------------------------------------------------------------
\* The step-list loop of pio_swapm (lines 162-168) for communicators of
\* any size: two ranks of a communicator of sched.nprocs ranks each run the
\* loop; sched.pairs[me] records what pair returned in each step.

\* The largest communicator size examined.
MaxPairProcs == 2 * NProcs

\* Lengths sndlths[p][q] that rank p is called with for rank q; rcvlths of
\* rank q are consistent with them.  All ranks exchanging, rank 0 with every
\* rank, a ring, every second rank sending to the higher ranks, nothing.
SchedLens(np) ==
    LET R == 0 .. np - 1
    IN  { [p \in R |-> [q \in R |-> 1]],
          [p \in R |-> [q \in R |-> IF p = 0 \/ q = 0 THEN 1 ELSE 0]],
          [p \in R |-> [q \in R |-> IF q = (p + 1) % np THEN MaxLen ELSE 0]],
          [p \in R |-> [q \in R |-> IF p % 2 = 0 /\ p < q THEN 1 ELSE 0]],
          [p \in R |-> [q \in R |-> 0]] }

InitPair ==
    /\ \E np \in 1 .. MaxPairProcs :
       \E ranks \in SUBSET (0 .. np - 1) :
       \E lths \in SchedLens(np) :
          /\ Cardinality(ranks) = IF np = 1 THEN 1 ELSE 2
          /\ sched = [ nprocs |-> np,
                       sndlths |-> lths,
                       istep |-> [r \in ranks |-> 0],
                       swapids |-> [r \in ranks |-> << >>],
                       pairs |-> [r \in ranks |-> << >>] ]
    /\ fc = << >> /\ gpc = << >> /\ loc = << >> /\ rcvid = << >>
    /\ recvs = << >> /\ recvbuf = << >> /\ gmsgs = {} /\ slots = << >>
    /\ SwapmUnused
    /\ DarrayUnused

\* One iteration of the loop of lines 163-168 on rank me; steps is the
\* length of swapids.
PairLoop(me) ==
    /\ sched.istep[me] < ceil2(sched.nprocs) - 1
    /\ LET p == pair(sched.nprocs, sched.istep[me], me)
           take == /\ p >= 0
                   /\ \/ sched.sndlths[me][p] > 0
                      \/ sched.sndlths[p][me] > 0
       IN  sched' = [sched EXCEPT
                        !.istep[me] = @ + 1,
                        !.pairs[me] = Append(@, p),
                        !.swapids[me] = IF take THEN Append(@, p) ELSE @]
    /\ UNCHANGED << fc, gpc, loc, rcvid, recvs, recvbuf, gmsgs, slots >>
    /\ UNCHANGED << swapmVars, darrayVars >>

NextPair == \E me \in DOMAIN sched.istep : PairLoop(me)

SpecPair == InitPair /\ [][NextPair]_vars

---------------------------------------------------------------------------
\* pio_fc_gather (lines 35-102), called once by every rank of a
\* communicator of NProcs ranks with the same root, count, type and
\* flow_cntl.

MAX_GATHER_BLOCK_SIZE == 64

Min(a, b) == IF a < b THEN a ELSE b

\* The values of flow_cntl: not positive (MPI_Gather), below, at and above
\* the number of peers, and above MAX_GATHER_BLOCK_SIZE.
FlowChoices == (0 .. NProcs) \cup {MAX_GATHER_BLOCK_SIZE + 1}

GatherRoots == {0, 1}

\* Bytes of one element of the datatype.
TypeExtents == {1, 2}

\* Line 52 and line 64.
gather_block_size == Min(fc.flow_cntl, MAX_GATHER_BLOCK_SIZE)
preposts == Min(NProcs - 1, gather_block_size)

\* Bytes of one rank's block, and byte j of the sendbuf of rank p.
BlockBytes == fc.cnt * fc.extent
SendByte(p, j) == 1 + j + 100 * p

\* The root's receive buffer before the call: no byte equals a sent one.
RecvInit == [i \in 0 .. NProcs * BlockBytes - 1 |-> -(i + 1)]

\* The next rank after p that the loop of line 70 has work for, NProcs past
\* the last one (line 71 skips the root).
NextPeer(p) ==
    IF p + 1 = fc.root THEN p + 2 ELSE p + 1

\* An element of rcvid: never written since malloc, MPI_REQUEST_NULL, or the
\* handle of the receive from src.
UninitReq == [ st |-> "uninit", src |-> -1 ]
DoneReq == [ st |-> "null", src |-> -1 ]
ActiveReq(src) == [ st |-> "active", src |-> src ]

\* rcvid is modelled up to index preposts, the highest index the code
\* forms; indexes from gather_block_size on lie past the allocated array.
InitGather ==
    /\ fc \in [ flow_cntl : FlowChoices, root : GatherRoots,
                cnt : 0 .. MaxLen, extent : TypeExtents ]
    /\ gpc = [p \in Procs |->
                IF fc.flow_cntl <= 0 THEN "gather"
                ELSE IF p = fc.root
                     THEN (IF fc.cnt > 0 THEN "loop" ELSE "waitall")
                     ELSE (IF fc.cnt > 0 THEN "recv_hs" ELSE "done")]
    /\ loc = [ p |-> IF fc.root = 0 THEN 1 ELSE 0, count |-> 0, head |-> 0 ]
    /\ rcvid = IF fc.flow_cntl > 0
               THEN [i \in 0 .. preposts |-> UninitReq] ELSE << >>
    /\ recvs = [p \in Procs |-> "none"]
    /\ recvbuf = RecvInit
    /\ gmsgs = {}
    /\ slots = [ posted |-> {}, waited |-> {}, waitall |-> {} ]
    /\ sched = << >>
    /\ SwapmUnused
    /\ DarrayUnused

\* Position of the root when its loop moves on to rank p.
RootAt(p) == IF p < NProcs THEN "loop" ELSE "waitall"

\* Lines 73-76: from the (preposts+2)-th receive on, the root first waits on
\* slot tail = head % preposts + 1; count is incremented by the test.
RootWait ==
    /\ gpc[fc.root] = "loop"
    /\ loc.count > preposts
    /\ LET tail == (loc.head % preposts) + 1
           req == rcvid[tail]
       IN  /\ req.st = "active" => recvs[req.src] = "complete"
           /\ recvs' = IF req.st = "active"
                       THEN [recvs EXCEPT ![req.src] = "waited"] ELSE recvs
           /\ rcvid' = [rcvid EXCEPT ![tail] = DoneReq]
           /\ slots' = [slots EXCEPT !.waited = @ \cup {tail}]
    /\ loc' = [loc EXCEPT !.count = @ + 1]
    /\ gpc' = [gpc EXCEPT ![fc.root] = "post"]
    /\ UNCHANGED << fc, recvbuf, gmsgs, sched >>
    /\ UNCHANGED << swapmVars, darrayVars >>

\* Lines 73 and 77-82: (count is incremented by the test of line 73 when no
\* wait was made;) head moves on, the receive from rank p is posted at byte
\* recvbuf + p in slot head, and the ready message goes to rank p.  A slot
\* past the allocated array either happens to be usable memory or the
\* write damages the heap and the program dies.
RootPost(ub) ==
    /\ \/ gpc[fc.root] = "post"
       \/ gpc[fc.root] = "loop" /\ loc.count <= preposts
    /\ LET p == loc.p
           head == (loc.head % preposts) + 1
           count == IF gpc[fc.root] = "loop" THEN loc.count + 1 ELSE loc.count
       IN  /\ ub = "abort" => head >= gather_block_size
           /\ loc' = [ p |-> NextPeer(p), count |-> count, head |-> head ]
           /\ slots' = [slots EXCEPT !.posted = @ \cup {head}]
           /\ IF ub = "abort"
              THEN /\ gpc' = [gpc EXCEPT ![fc.root] = "aborted"]
                   /\ UNCHANGED << rcvid, recvs, gmsgs >>
              ELSE /\ rcvid' = [rcvid EXCEPT ![head] = ActiveReq(p)]
                   /\ recvs' = [recvs EXCEPT ![p] = "posted"]
                   /\ gmsgs' = gmsgs \cup
                         {[ src |-> fc.root, dst |-> p, kind |-> "hs", data |-> << 1 >> ]}
                   /\ gpc' = [gpc EXCEPT ![fc.root] = RootAt(NextPeer(p))]
    /\ UNCHANGED << fc, recvbuf, sched >>
    /\ UNCHANGED << swapmVars, darrayVars >>

\* Lines 87-90: MPI_Waitall on the first min(count, preposts) elements of
\* rcvid, then the array is freed and the root returns.  An element that was
\* never written holds whatever malloc returned: MPI takes it for an
\* inactive request or rejects it and aborts.
RootWaitall(ub) ==
    /\ gpc[fc.root] = "waitall"
    /\ LET n == Min(loc.count, preposts)
           S == 0 .. n - 1
           garbage == \E i \in S : rcvid[i].st = "uninit"
       IN  /\ ub = "abort" => garbage
           /\ slots' = [slots EXCEPT !.waitall = S]
           /\ IF ub = "abort"
              THEN /\ gpc' = [gpc EXCEPT ![fc.root] = "aborted"]
                   /\ UNCHANGED << rcvid, recvs >>
              ELSE /\ \A i \in S : rcvid[i].st = "active" =>
                                      recvs[rcvid[i].src] = "complete"
                   /\ recvs' = [p \in Procs |->
                                  IF \E i \in S : rcvid[i] = ActiveReq(p)
                                  THEN "waited" ELSE recvs[p]]
                   /\ rcvid' = << >>
                   /\ gpc' = [gpc EXCEPT ![fc.root] = "done"]
    /\ UNCHANGED << fc, loc, recvbuf, gmsgs, sched >>
    /\ UNCHANGED << swapmVars, darrayVars >>

\* MPI completes a posted receive once the message from rank p is there:
\* line 80 gave it the address (char *) recvbuf + p.
Deliver(p) ==
    /\ recvs[p] = "posted"
    /\ \E m \in gmsgs :
          /\ m.src = p /\ m.dst = fc.root /\ m.kind = "data"
          /\ recvbuf' = [i \in DOMAIN recvbuf |->
                           IF i >= p /\ i < p + Len(m.data)
                           THEN m.data[i - p + 1] ELSE recvbuf[i]]
          /\ gmsgs' = gmsgs \ {m}
    /\ recvs' = [recvs EXCEPT ![p] = "complete"]
    /\ UNCHANGED << fc, gpc, loc, rcvid, slots, sched >>
    /\ UNCHANGED << swapmVars, darrayVars >>

\* Line 94: a rank other than the root receives the ready message.
PeerRecv(me) ==
    /\ gpc[me] = "recv_hs"
    /\ \E m \in gmsgs :
          /\ m.src = fc.root /\ m.dst = me /\ m.kind = "hs"
          /\ gmsgs' = gmsgs \ {m}
    /\ gpc' = [gpc EXCEPT ![me] = "rsend"]
    /\ UNCHANGED << fc, loc, rcvid, recvs, recvbuf, slots, sched >>
    /\ UNCHANGED << swapmVars, darrayVars >>

\* Line 95: the ready-send of sendbuf to the root; with no receive posted
\* the message may be lost.
PeerRsend(me) ==
    /\ gpc[me] = "rsend"
    /\ LET m == [ src |-> me, dst |-> fc.root, kind |-> "data",
                  data |-> [j \in 1 .. BlockBytes |-> SendByte(me, j - 1)] ]
       IN  \/ gmsgs' = gmsgs \cup {m}
           \/ recvs[me] # "posted" /\ gmsgs' = gmsgs
    /\ gpc' = [gpc EXCEPT ![me] = "done"]
    /\ UNCHANGED << fc, loc, rcvid, recvs, recvbuf, slots, sched >>
    /\ UNCHANGED << swapmVars, darrayVars >>

\* Line 99 on a rank other than the root: MPI_Gather sends sendbuf.
MpiGatherSend(me) ==
    /\ gpc[me] = "gather"
    /\ me # fc.root
    /\ gmsgs' = gmsgs \cup
          {[ src |-> me, dst |-> fc.root, kind |-> "gather",
             data |-> [j \in 1 .. BlockBytes |-> SendByte(me, j - 1)] ]}
    /\ gpc' = [gpc EXCEPT ![me] = "done"]
    /\ UNCHANGED << fc, loc, rcvid, recvs, recvbuf, slots, sched >>
    /\ UNCHANGED << swapmVars, darrayVars >>

\* Line 99 on the root: MPI_Gather returns when the block of every rank,
\* the root's own included, is in recvbuf at p * recvcnt elements.
MpiGatherRoot ==
    /\ gpc[fc.root] = "gather"
    /\ \A p \in Procs \ {fc.root} :
          \E m \in gmsgs : m.src = p /\ m.kind = "gather"
    /\ recvbuf' = [i \in DOMAIN recvbuf |->
                     LET p == i \div BlockBytes
                         j == i % BlockBytes
                     IN  IF p = fc.root THEN SendByte(p, j)
                         ELSE (CHOOSE m \in gmsgs :
                                  m.src = p /\ m.kind = "gather").data[j + 1]]
    /\ gmsgs' = {m \in gmsgs : m.kind # "gather"}
    /\ gpc' = [gpc EXCEPT ![fc.root] = "done"]
    /\ UNCHANGED << fc, loc, rcvid, recvs, slots, sched >>
    /\ UNCHANGED << swapmVars, darrayVars >>

NextGather ==
    \/ RootWait
    \/ \E ub \in {"works", "abort"} : RootPost(ub)
    \/ \E ub \in {"null", "abort"} : RootWaitall(ub)
    \/ \E p \in Procs : Deliver(p)
    \/ \E me \in Procs : PeerRecv(me)
    \/ \E me \in Procs : PeerRsend(me)
    \/ \E me \in Procs : MpiGatherSend(me)
    \/ MpiGatherRoot

SpecGather == InitGather /\ [][NextGather]_vars
---------------------------------------------------------------------------
\* Properties of pio_swapm

\* A rank has returned from pio_swapm.
Returned(r) == pc[r] = "done"

\* What MPI_Alltoallw would leave in rank r's receive buffer for peer p.
AlltoallwSlot(r, p) ==
    \A j \in 1 .. sndlths[p][r] : rcvbuf[r][rdispls(r, p) + j - 1] = Slice(p, r)[j]

\* C1: for every rank, when pio_swapm has returned on that rank, its receive
\* buffer holds exactly what MPI_Alltoallw would have stored there: for every
\* peer p, the slice of p's send buffer addressed to this rank, whatever the
\* options (handshake, isend, max_requests) were.
C1_SwapmIsAlltoallw ==
    \A r \in Procs : Returned(r) => \A p \in Procs : AlltoallwSlot(r, p)

---------------------------------------------------------------------------
\* Properties of the write path.

Writing == cur.op = "write"
TheWmb(t) == buffer[t][wmbp[t]]

\* The WMB of the call as it was when the call started (empty if the call
\* created it).
PreWmb(t) ==
    IF wmbp[t] <= Len(pre[t].buffer)
    THEN pre[t].buffer[wmbp[t]]
    ELSE NewWmb(cur.ioid, IF record(cur.varid) >= 0 THEN 1 ELSE 0, 0)

\* Task t is past the all-reduce of the current call.
PastAllreduce(t) == Writing /\ Len(ev[t].steps) >= 2 /\ ev[t].steps[2] = "allreduce"
                    /\ ierr[t] # "PIO_EIO"

\* Task t has returned from the current call without error.
ReturnedOk(t) == Writing /\ at[t] = "idle" /\ ierr[t] = "PIO_NOERR"

IsPrefix(a, b) == Len(a) <= Len(b) /\ \A i \in 1 .. Len(a) : a[i] = b[i]

\* C2: once the all-reduce has completed, every compute task holds the same
\* flush code, the largest of the local codes (region cap included), and the
\* tasks that have reached the flush step have all called flush_buffer with
\* the same flag or have all skipped it.
C2_AgreedFlushCode ==
    \A t \in Tasks :
        PastAllreduce(t) =>
            /\ needsflush[t] = MaxOf({localflush[u].code : u \in Tasks})
            /\ \A u \in Tasks :
                  /\ PastAllreduce(u)
                  /\ needsflush[u] = needsflush[t]
                  /\ ev[t].flushcall # "none" /\ ev[u].flushcall # "none"
                        => ev[t].flushcall = ev[u].flushcall

\* Two tasks whose local codes differ have both flushed.
C2_Witness ==
    \E t, u \in Tasks :
        /\ PastAllreduce(t) /\ localflush[t].code # localflush[u].code
        /\ ev[t].flushcall = "io" /\ ev[u].flushcall = "io"

Orders == { << "decision", "allreduce", "flush", "append" >>,
            << "decision", "allreduce", "append" >> }

\* C3: within a call the steps are taken in the order decision, all-reduce,
\* flush, append; flush_buffer is called only for an agreed code above zero,
\* with wait set exactly for code 2; what it hands over was queued by earlier
\* calls; and after a successful return the array of the call is the last
\* one of the WMB, which holds one array if a flush occurred and one more
\* than before otherwise.
C3_FlushThenAppend ==
    \A t \in Tasks :
        Writing =>
            /\ \E o \in Orders : IsPrefix(ev[t].steps, o)
            /\ ev[t].flushcall = "skip" => needsflush[t] = 0 /\ ev[t].flushed = {}
            /\ ev[t].flushcall = "io" => needsflush[t] = 1
            /\ ev[t].flushcall = "disk" => needsflush[t] = 2
            /\ at[t] = "append" => ev[t].flushcall # "none"
            /\ at[t] = "append" /\ needsflush[t] > 0 => ev[t].flushcall # "skip"
            /\ \A n \in ev[t].flushed : n < cur.n
            /\ ReturnedOk(t) =>
                  LET w == TheWmb(t)
                      k == w.num_arrays
                      len == w.arraylen
                  IN /\ ev[t].steps \in Orders
                     /\ k = IF ev[t].flushcall = "skip"
                            THEN PreWmb(t).num_arrays + 1 ELSE 1
                     /\ Len(w.ent) = k /\ w.ent[k].n = cur.n
                     /\ Len(w.vid) >= k /\ w.vid[k] = cur.varid
                     /\ Len(w.data) >= k * len
                     /\ \A i \in 1 .. len : w.data[(k - 1) * len + i] = UserArray(t)[i]

\* A call that flushed arrays of earlier calls to disk has returned with its
\* own array queued.
C3_Witness ==
    \E t \in Tasks :
        /\ ReturnedOk(t) /\ ev[t].flushcall = "disk" /\ ev[t].flushed # {}
        /\ TheWmb(t).num_arrays = 1 /\ ndof(iodesc(cur.ioid), t) > 0

\* The latest write of the variable read used the decomposition of the
\* read, task t queued its array in that call, the backend of t has been
\* handed that array, and no array of the variable reached the file since.
Drained(t) ==
    LET v == array.varid
        n == hist.w[v].n
    IN /\ n > 0
       /\ hist.w[v].ioid = array.ioid
       /\ hist.app[t][v].n = n
       /\ hist.wrote[t][v] = n
       /\ hist.onfile[v] = n

\* C4: round trip.  When a variable is read with the decomposition its
\* latest array was written with, after the flush that drained that array,
\* every compute task gets back, element by element, the array it wrote.
C4_RoundTrip ==
    array # << >> =>
        \A t \in Tasks :
            Drained(t) /\ array.out[t].ret = "PIO_NOERR"
                => array.out[t].data = hist.app[t][array.varid].array

\* The decision as the specification words it.
StatedDecision(t) ==
    LET w == TheWmb(t)
        d == iodesc(cur.ioid)
        bytes == (1 + w.num_arrays) * ndof(d, t) * d.mpitype_size
    IN IF curalloc[t] >= pio_buffer_size_limit THEN 2
       ELSE IF 10 * (PoolSize - curalloc[t]) <= 11 * bytes THEN 1
       ELSE 0

\* C5: the local decision is 2 when curalloc >= pio_buffer_size_limit,
\* otherwise 1 when maxfree <= 1.1 * (1 + num_arrays) * arraylen *
\* mpitype_size, otherwise 0; the limit test comes first and the result is
\* one of 0, 1, 2.
C5_LocalDecision ==
    \A t \in Tasks :
        Writing /\ at[t] = "allreduce" =>
            /\ localflush[t].fn = StatedDecision(t)
            /\ localflush[t].fn \in {0, 1, 2}

\* A task for which both tests are true has decided 2.
C5_Witness ==
    \E t \in Tasks :
        /\ Writing /\ at[t] = "allreduce"
        /\ curalloc[t] >= pio_buffer_size_limit
        /\ 10 * (PoolSize - curalloc[t]) <=
              11 * ((1 + TheWmb(t).num_arrays) * ndof(iodesc(cur.ioid), t)
                    * iodesc(cur.ioid).mpitype_size)
        /\ localflush[t].fn = 2

\* The regions one array of decomposition d may take on an I/O task.
Regions(d) == IF d.maxregions >= d.maxfillregions THEN d.maxregions
              ELSE d.maxfillregions

\* C6: when (1 + num_arrays) * max(maxregions, maxfillregions) exceeds
\* PIO_MAX_CACHED_IO_REGIONS at a call, the task decides 2, the agreed code
\* is 2 and flush_buffer runs with wait set before the array is appended;
\* hence a WMB that holds two arrays or more stays within the cap.
C6_RegionCap ==
    /\ \A t \in Tasks :
          /\ Writing /\ at[t] = "allreduce"
             /\ (1 + TheWmb(t).num_arrays) * Regions(iodesc(cur.ioid))
                    > PIO_MAX_CACHED_IO_REGIONS
                => localflush[t].code = 2 /\ localflush[t].cap
          /\ PastAllreduce(t) /\ localflush[t].cap
                => /\ needsflush[t] = 2
                   /\ ev[t].flushcall \in {"none", "disk"}
                   /\ at[t] = "append" \/ ReturnedOk(t)
                         => ev[t].flushcall = "disk" /\ ev[t].steps[3] = "flush"
    /\ \A t \in Tasks : \A i \in 1 .. Len(buffer[t]) :
          buffer[t][i].num_arrays >= 2 =>
              buffer[t][i].num_arrays * Regions(iodesc(buffer[t][i].ioid))
                  <= PIO_MAX_CACHED_IO_REGIONS

\* The cap alone made a task flush to disk; its WMB held one array.
C6_Witness ==
    \E t \in Tasks :
        /\ ReturnedOk(t) /\ localflush[t].cap /\ localflush[t].fn = 0
        /\ ev[t].flushcall = "disk" /\ ev[t].flushed # {}
        /\ TheWmb(t).num_arrays = 1

\* Task t is back from a flush_buffer call that did not fail.
AfterFlush(t) == Writing /\ at[t] = "append" /\ ev[t].flushcall \in {"io", "disk"}

QueuedKept(p, w) ==
    /\ IsPrefix(p.data, w.data) /\ IsPrefix(p.vid, w.vid)
    /\ IsPrefix(p.frame, w.frame) /\ IsPrefix(p.fillvalue, w.fillvalue)

\* C8: with an agreed code of 0 the call rearranges nothing, calls no
\* backend and hands no array over; when it returns, the arrays queued
\* before are as they were and num_arrays has grown by one (by nothing if
\* the call failed).
C8_CodeZeroOnlyAppends ==
    \A t \in Tasks :
        Writing /\ ev[t].flushcall = "skip" =>
            /\ ev[t].rearr = 0 /\ ev[t].data = 0 /\ ev[t].fill = 0
            /\ ev[t].flushed = {}
            /\ at[t] = "idle" =>
                  /\ QueuedKept(PreWmb(t), TheWmb(t))
                  /\ TheWmb(t).num_arrays =
                        PreWmb(t).num_arrays + (IF ierr[t] = "PIO_NOERR" THEN 1 ELSE 0)

\* C9: every array queued in a WMB was written with the ioid and recordvar
\* of the WMB and with its arraylen, the ndof of the decomposition.
C9_WmbHomogeneous ==
    \A t \in Tasks : \A i \in 1 .. Len(buffer[t]) :
        LET w == buffer[t][i]
        IN /\ Len(w.ent) = w.num_arrays
           /\ \A k \in 1 .. Len(w.ent) :
                 /\ w.ent[k].ioid = w.ioid
                 /\ w.ent[k].recordvar = w.recordvar
                 /\ w.ent[k].arraylen = w.arraylen
                 /\ w.arraylen = ndof(iodesc(w.ioid), t)

\* A WMB holds the arrays of two different variables.
C9_Witness ==
    \E t \in Tasks : \E i \in 1 .. Len(buffer[t]) :
        /\ buffer[t][i].num_arrays = 2
        /\ buffer[t][i].ent[1].varid # buffer[t][i].ent[2].varid
        /\ buffer[t][i].arraylen > 0

\* C10: a write call that failed has left the arrays queued in every WMB
\* in place: num_arrays is what it was, and so are the data, vid, frame and
\* fillvalue entries queued before the call.
C10_FailedWriteKeepsQueue ==
    \A t \in Tasks :
        Writing /\ at[t] = "idle" /\ ierr[t] # "PIO_NOERR" =>
            \A i \in 1 .. Len(pre[t].buffer) :
                /\ buffer[t][i].num_arrays = pre[t].buffer[i].num_arrays
                /\ QueuedKept(pre[t].buffer[i], buffer[t][i])

---------------------------------------------------------------------------
\* Scratch buffers, assertions and error propagation of the write path.

\* Task t has made the flush_buffer call of this PIOc_write_darray, and the
\* PIOc_write_darray_multi call inside it has returned to its caller.
MultiReturned(t) ==
    /\ Writing
    /\ ev[t].flushcall \in {"io", "disk"}
    /\ PreWmb(t).num_arrays > 0
    /\ at[t] # "aborted"

\* C11: after any PIOc_write_darray_multi call has returned, with success or
\* with an error, the task holds no iobuf and no fillbuf of the file, unless
\* the backend is the non-blocking parallel one (PNETCDF).
C11_NoScratchAfterReturn ==
    \A t \in Tasks :
        MultiReturned(t) /\ file.iotype # "PNETCDF" => Scratch(t) = 0

\* Task t is about to call flush_buffer for a WMB that holds arrays, with
\* arguments that pass the checks made ahead of the assertion: the
\* PIOc_write_darray_multi call reaches the assertion of line 222.
ReachesAssertion(t) ==
    /\ Writing /\ at[t] = "flush" /\ needsflush[t] > 0
    /\ TheWmb(t).num_arrays > 0
    /\ Ok(WM_Check(TaskState(t), FlushArgs(TheWmb(t), needsflush[t] = 2)))

\* C12: at most one iobuf is outstanding per file: in every
\* PIOc_write_darray_multi call, whatever write calls succeeded or failed
\* before it, file->iobuf is null once the pre-flush of the non-blocking
\* parallel backend is done, so that the assertion ahead of the allocation
\* holds.
C12_IobufNullAtAssertion ==
    \A t \in Tasks :
        ReachesAssertion(t) =>
            Ok(WM_Pre(TaskState(t), FlushArgs(TheWmb(t), needsflush[t] = 2), "none"))

\* C13: when all compute tasks have entered the same PIOc_write_darray call
\* and it fails on one of them, no task returns success from it.
C13_FailureOnAllTasks ==
    \A t, u \in Tasks :
        /\ Writing
        /\ at[t] = "idle" /\ ierr[t] # "PIO_NOERR"
        /\ at[u] = "idle"
        => ierr[u] # "PIO_NOERR"

\* C14: errors are never swallowed on the write path: a PIOc_write_darray
\* call in which a sub-operation failed on the task (the all-reduce, the
\* record-size computation, the rearrangement, a backend write, the final
\* flush, an allocation) does not return success on that task.
C14_NoSwallowedError ==
    \A t \in Tasks :
        Writing /\ at[t] = "idle" /\ ev[t].failed # {} => ierr[t] # "PIO_NOERR"

---------------------------------------------------------------------------
\* Argument checks of the write calls.

Multi == cur.op = "multi"

\* Task t is through with the current PIOc_write_darray_multi call.
MultiDone(t) == Multi /\ at[t] # "multi"

\* nvars is not positive, varids is NULL, or one of the nvars ids is
\* outside 0 .. PIO_MAX_VARS.
BadVarids ==
    \/ cur.nvars <= 0
    \/ cur.varids = << >>
    \/ \E v \in 1 .. cur.nvars : cur.varids[v] \notin 0 .. PIO_MAX_VARS

\* Task t has not communicated, allocated or called the backend in the
\* current call, and its WMB chain, pool, scratch buffers and pending-byte
\* counters are as they were when the call started.
Untouched(t) ==
    /\ ev[t] = NoEvents
    /\ buffer[t] = pre[t].buffer
    /\ curalloc[t] = pre[t].curalloc
    /\ Scratch(t) = pre[t].scratch

\* C16: PIOc_write_darray_multi returns PIO_EINVAL, before any
\* communication, allocation or backend call, when nvars is not positive,
\* when varids is NULL or when one of the ids is outside 0 .. PIO_MAX_VARS,
\* whatever the file mode and the decomposition id are.
C16_BadVaridsRejected ==
    \A t \in Tasks :
        MultiDone(t) /\ BadVarids =>
            at[t] = "idle" /\ ierr[t] = "PIO_EINVAL" /\ Untouched(t)

\* A call with an id out of range on a read-only file has returned
\* PIO_EINVAL on every task.
C16_Witness ==
    /\ Multi /\ cur.nvars > 0 /\ cur.varids # << >> /\ BadVarids
    /\ ~file.writable
    /\ \A t \in Tasks : at[t] = "idle" /\ ierr[t] = "PIO_EINVAL"

\* C17: PIOc_write_darray_multi called with a decomposition whose rearranger
\* is neither BOX nor SUBSET fails with an error returned to the caller,
\* PIO_EINVAL.
C17_UnknownRearrangerReturned ==
    \A t \in Tasks :
        /\ MultiDone(t) /\ ~BadVarids /\ file.writable
        /\ cur.ioid \in IoIds
        /\ iodesc(cur.ioid).rearranger \notin {"BOX", "SUBSET"}
        => at[t] = "idle" /\ ierr[t] = "PIO_EINVAL"

\* A write call is in progress or was the last call made.
WriteCall == Writing \/ Multi

\* C18 as the claim words it: on a file without write permission a write
\* call, PIOc_write_darray or PIOc_write_darray_multi, enters no collective,
\* returns PIO_EPERM and leaves the WMB chain, the pending-byte counters and
\* the scratch buffers unchanged.
C18_ReadOnlyReturnsEperm ==
    ~file.writable /\ WriteCall =>
        \A t \in Tasks :
            /\ at[t] \in {"enter", "multi", "idle"}
            /\ Untouched(t)
            /\ wb_pend[t] = 0 /\ \A v \in VarIds : vdesc[t][v].wb_pend = 0
            /\ at[t] = "idle" => ierr[t] = "PIO_EPERM"

\* C18: on a file without write permission a write call enters no
\* collective, leaves the WMB chain, the pending-byte counters and the
\* scratch buffers unchanged, and returns PIO_EPERM, except that
\* PIOc_write_darray_multi returns PIO_EINVAL when its nvars or varids are
\* invalid, which it tests first.
C18_ReadOnlyRejected ==
    ~file.writable /\ WriteCall =>
        \A t \in Tasks :
            /\ at[t] \in {"enter", "multi", "idle"}
            /\ Untouched(t)
            /\ wb_pend[t] = 0 /\ \A v \in VarIds : vdesc[t][v].wb_pend = 0
            /\ at[t] = "idle" =>
                  ierr[t] = IF Multi /\ BadVarids THEN "PIO_EINVAL" ELSE "PIO_EPERM"

\* A PIOc_write_darray_multi call with valid nvars and varids has returned
\* PIO_EPERM on a read-only file, after a PIOc_write_darray call made on it.
C18_Witness ==
    /\ ~file.writable /\ Multi /\ ~BadVarids /\ cur.n > 1
    /\ hist.w[1].n > 0
    /\ \A t \in Tasks : at[t] = "idle" /\ ierr[t] = "PIO_EPERM"

---------------------------------------------------------------------------
\* The write-cache limit.

\* The limit in force after the first k calls of setlimit.calls: the
\* argument of the latest of them that was positive, the initial limit if
\* there is none.
LimitAfter(k) ==
    LET pos == {i \in 1 .. k : setlimit.calls[i] > 0}
    IN IF pos = {} THEN InitialLimit ELSE setlimit.calls[MaxOf(pos)]

\* C19: PIOc_set_buffer_size_limit(n) returns the limit in force before the
\* call, which is the value set by the latest earlier call with a positive
\* argument (10485760 if there is none); it replaces the limit with n when
\* n > 0 and leaves it unchanged when n <= 0, so that the limit stays
\* positive.
C19_SetLimitReturnsPrevious ==
    LET k == Len(setlimit.calls)
    IN /\ pio_buffer_size_limit > 0
       /\ pio_buffer_size_limit = LimitAfter(k)
       /\ k > 0 => /\ setlimit.oldsize = LimitAfter(k - 1)
                   /\ setlimit.calls[k] > 0 => pio_buffer_size_limit = setlimit.calls[k]
                   /\ setlimit.calls[k] <= 0 => pio_buffer_size_limit = setlimit.oldsize

\* Three calls, the second with an argument that is not positive: the third
\* has returned the argument of the first and set another limit.
C19_Witness ==
    /\ Len(setlimit.calls) = 3
    /\ setlimit.calls[1] > 0 /\ setlimit.calls[2] <= 0 /\ setlimit.calls[3] > 0
    /\ setlimit.calls[3] # setlimit.calls[1]
    /\ setlimit.oldsize = setlimit.calls[1]
    /\ pio_buffer_size_limit = setlimit.calls[3]

\* The decision of lines 548-585 taken against the limit lim.
DecisionUnder(lim, w, alen, d, c) ==
    IF c >= lim THEN 2
    ELSE IF 10 * maxfree(c) <= 11 * ((1 + w.num_arrays) * (alen * d.mpitype_size))
    THEN 1
    ELSE 0

\* C20: a change of pio_buffer_size_limit applies only to files opened after
\* it: the flush decisions PIOc_write_darray takes for the file, which was
\* opened under the initial limit, are those the initial limit gives,
\* whatever PIOc_set_buffer_size_limit calls have been made since.
C20_OpenFileKeepsLimit ==
    \A t \in Tasks :
        Writing /\ at[t] = "allreduce" =>
            localflush[t].fn = DecisionUnder(InitialLimit, TheWmb(t), QueuedLen(t),
                                             iodesc(cur.ioid), curalloc[t])

---------------------------------------------------------------------------
\* The backend calls and the scratch buffer of PIOc_write_darray_multi.

\* The current PIOc_write_darray_multi call has returned PIO_NOERR on task t.
MultiSucceeded(t) == MultiDone(t) /\ at[t] = "idle" /\ ierr[t] = "PIO_NOERR"

\* C21: a PIOc_write_darray_multi call that succeeds has invoked the backend
\* with mode DATA exactly once, and after it with mode FILL exactly once if
\* and only if the rearranger is SUBSET and needsfill is set; under BOX or
\* without needsfill there is no FILL call, and at no point of any call has
\* FILL been invoked before DATA.
C21_DataThenFill ==
    \A t \in Tasks :
        /\ ev[t].modes \in { << >>, << "DATA" >>, << "DATA", "FILL" >> }
        /\ MultiSucceeded(t) =>
              ev[t].modes = IF /\ iodesc(cur.ioid).rearranger = "SUBSET"
                               /\ iodesc(cur.ioid).needsfill
                            THEN << "DATA", "FILL" >> ELSE << "DATA" >>

\* A call on the SUBSET decomposition that needs fill values has succeeded
\* on every task, after DATA then FILL.
C21_Witness ==
    /\ Multi /\ cur.ioid = 1
    /\ \A t \in Tasks : MultiSucceeded(t) /\ ev[t].modes = << "DATA", "FILL" >>

\* The arguments task t passed in the current PIOc_write_darray_multi call.
CurArgs(t) ==
    MultiArgs(t, << cur.nvars, cur.varids, cur.ioid, cur.flushtodisk >>, cur.n)

\* What the file holds in slot g of variable number nv of the current call.
OnDisk(nv, g) == disk[cur.varids[nv]][FrameOf(CurArgs(0), nv)][g]

\* C22: when needsfill is set and the rearranger is BOX, every one of the
\* maxiobuflen elements of the segment of each variable nv in iobuf equals
\* fillvalue[nv] when the rearrangement starts, and when needsfill is unset
\* or the rearranger is SUBSET nothing has been written to iobuf by then;
\* so a BOX call with needsfill that succeeded on every task has left in
\* each slot of each variable either the value a task passed for the slot
\* or the fill value of the variable.
C22_BoxPrefill ==
    /\ \A t \in Tasks :
          Multi /\ ev[t].rearr >= 1 =>
             LET d == iodesc(cur.ioid)
                 n == maxiobuflen(d)
             IN /\ Len(ev[t].iobuf0) = n * cur.nvars
                /\ \A nv \in 1 .. cur.nvars : \A i \in 1 .. n :
                      ev[t].iobuf0[(nv - 1) * n + i] =
                         IF d.needsfill /\ d.rearranger = "BOX"
                         THEN CurArgs(t).fillvalue[nv] ELSE Uninit
    /\ Multi /\ (\A t \in Tasks : MultiSucceeded(t)) =>
          LET d == iodesc(cur.ioid)
          IN d.needsfill /\ d.rearranger = "BOX" =>
                \A nv \in 1 .. cur.nvars : \A g \in Slots :
                   /\ g \in Unmapped(d) => OnDisk(nv, g) = CurArgs(0).fillvalue[nv]
                   /\ \A t \in Tasks : \A i \in 1 .. ndof(d, t) :
                         d.map[t][i] = g =>
                            OnDisk(nv, g) =
                               CurArgs(t).array[(nv - 1) * ndof(d, t) + i]

\* A call that writes two variables through the BOX decomposition that
\* needs fill values has succeeded on every task; the file holds the fill
\* value of the second variable in a slot no task contributed to and a value
\* of task 1 in another.
C22_Witness ==
    /\ Multi /\ cur.ioid = 3 /\ cur.nvars = 2
    /\ \A t \in Tasks : MultiSucceeded(t)
    /\ 2 \in Unmapped(iodesc(3)) /\ OnDisk(2, 2) = UserFill(2)
    /\ OnDisk(2, 3) = Elem(cur.n, 1, 2)

---------------------------------------------------------------------------
\* The copy a rank makes to itself (lines 142-154)

\* Rank me is between the start of pio_swapm and the end of its self copy.
InSelfCopy(me) == pc[me] \in {"self_irecv", "self_send", "self_wait"}

\* Rank me has started no exchange with another rank: it has posted no
\* receive from another rank, and no data of it is in flight to, or stored
\* by, another rank.
NoExchangeYet(me) ==
    /\ \A i \in Procs : hs_rcvids[me][i] = NullReq
    /\ \A i \in Procs : rcvids[me][i].st = "posted" => i = 0 /\ rcvids[me][i].src = me
    /\ \A m \in msgs : m.src = me => m.dst = me
    /\ \A q \in Procs \ {me} : sndlths[me][q] > 0 => ~AlltoallwSlot(q, me)

\* C26: a rank with sndlths[me] > 0 posts one receive from itself, then
\* sends to itself with a blocking send, and once it has waited its rcvbuf
\* at rdispls[me] holds a copy of the slice of its sndbuf at sdispls[me];
\* all this is over before the rank starts an exchange with another rank.
\* A rank with sndlths[me] = 0 makes no self copy.
C26_SelfCopy ==
    \A me \in Procs :
        /\ InSelfCopy(me) => sndlths[me][me] > 0 /\ NoExchangeYet(me)
        /\ pc[me] \in {"self_send", "self_wait"} =>
              rcvids[me][0] = Irecv(me, me + NProcs, "data", rdispls(me, me),
                                    sndlths[me][me])
        /\ pc[me] = "self_wait" =>
              Msg(me, me, me + NProcs, "data", Slice(me, me)) \in msgs
        /\ sndlths[me][me] > 0 /\ ~InSelfCopy(me) =>
              /\ AlltoallwSlot(me, me)
              /\ \A m \in msgs : ~(m.src = me /\ m.dst = me)

\* Rank 1, whose slice for itself lies at a non-zero displacement of both
\* buffers, has returned with its self copy in place.
C26_Witness ==
    /\ sndlths[1][1] > 0 /\ sdispls(1, 1) > 0 /\ rdispls(1, 1) > 0
    /\ Returned(1) /\ AlltoallwSlot(1, 1)

---------------------------------------------------------------------------
\* Message matching

\* The receive requests rank p has posted and not completed.
PostedReqs(p) ==
    {req \in {rcvids[p][i] : i \in Procs} \cup {hs_rcvids[p][i] : i \in Procs} :
        req.st = "posted"}

\* Message m is the one request req of rank p was posted for: the data
\* slice of the source for a data receive, its ready message for a
\* handshake receive.
Intended(p, req, m) ==
    /\ m.kind = req.kind /\ m.src = req.src /\ m.dst = p
    /\ req.kind = "data" => m.data = Slice(req.src, p)

\* C24: with the data tag being the rank of the sender plus nprocs and the
\* handshake tag the rank of the receiver plus nprocs, a posted receive,
\* data or handshake, is matched by no message other than the one it was
\* posted for, in every interleaving: the messages that match it are of its
\* kind and from its source, there is never more than one, and no receive
\* was ever completed by a message of the other kind.
C24_TagsDisjoint ==
    /\ ~crossed
    /\ \A p \in Procs : \A req \in PostedReqs(p) :
          /\ \A m \in Matching(p, req) : Intended(p, req, m)
          /\ Cardinality(Matching(p, req)) <= 1

\* With handshake, a rank holds a posted data receive and a posted
\* handshake receive from the same source while a data message and a ready
\* message of that source are both in flight to it.
C24_Witness ==
    /\ handshake
    /\ \E p \in Procs : \E d \in PostedReqs(p) : \E h \in PostedReqs(p) :
          /\ d.kind = "data" /\ h.kind = "hs" /\ d.src = h.src /\ d.src # p
          /\ \E m \in Matching(p, d) : m.kind = "data"
          /\ \E m \in Matching(p, h) : m.kind = "hs"

---------------------------------------------------------------------------
\* The receive window

\* The data receives rank me has posted and not completed, by index.
Outstanding(me) == {i \in Procs : rcvids[me][i].st = "posted"}

\* Rank me is about to wait for a data receive in the main loop.
WaitsInLoop(me) == pc[me] = "wait_rcv"

\* C23: with a positive max_requests, a rank never has more than
\* max_requests data receives posted and not completed, and the receive it
\* waits for before it posts the next one is the oldest it has outstanding.
C23_WindowBounded ==
    \A me \in Procs :
        max_requests > 0 =>
            /\ Cardinality(Outstanding(me)) <= max_requests
            /\ WaitsInLoop(me) =>
                  \A j \in Outstanding(me) : j >= istep[me] - maxreqh(me)

\* C28: called with max_requests <= 1, pio_swapm is a strictly serialized
\* exchange whatever the number of steps: no rank ever has more than one
\* data receive posted and not completed.
C28_SerializedExchange ==
    max_requests <= 1 => \A me \in Procs : Cardinality(Outstanding(me)) <= 1

\* Rank me has computed its window (lines 174-188).
WindowSet(me) ==
    pc[me] \notin {"self_irecv", "self_send", "self_wait", "setup"} /\ steps(me) > 0

\* C29: the window a rank called with a positive max_requests uses is 1
\* when steps = 1, steps when max_requests > steps, and max_requests
\* otherwise.
C29_EffectiveWindow ==
    \A me \in Procs :
        WindowSet(me) /\ max_requests > 0 =>
            maxreq(me) = IF steps(me) = 1 THEN 1
                         ELSE IF max_requests > steps(me) THEN steps(me)
                         ELSE max_requests

---------------------------------------------------------------------------
\* The send of the data

\* Rank me is at the MPI_Rsend of line 220.
AtRsend(me) == pc[me] = "rsend"

\* C30: pio_swapm sends data with a ready-send only when handshake is on;
\* with handshake off no rank reaches a ready-send (the data go out with
\* MPI_Send or, under isend, MPI_Isend).
C30_RsendOnlyWithHandshake ==
    \A me \in Procs : AtRsend(me) => handshake

---------------------------------------------------------------------------
\* MPI errors inside pio_swapm

\* C25: when an MPI call inside pio_swapm has reported an error on a rank,
\* the rank is not terminated, and once pio_swapm returns on it the value
\* returned is not PIO_NOERR.
C25_ErrorReturned ==
    \A me \in Procs :
        mpierr[me] /\ Returned(me) => swapm_ret[me] # "PIO_NOERR"

\* ---------------------------------------------------------------------
\* Properties of the handshake, the pair schedule, the returned requests
\* and termination of pio_swapm.
\* ---------------------------------------------------------------------

\* C31: with handshake on, every ready-send of data finds its matching
\* data receive already posted on the partner, for every number of steps:
\* no rank starts a ready-send before the partner's ready message arrived.
C31_RsendFindsReceive == handshake => ~rsend_err


\* Rank me of the step-list loop has left the loop.
LoopDone(me) == sched.istep[me] = ceil2(sched.nprocs) - 1

\* The partners with a non-zero length in one direction at least.
Exchanging(me) ==
    {p \in (0 .. sched.nprocs - 1) \ {me} :
        sched.sndlths[me][p] > 0 \/ sched.sndlths[p][me] > 0}

\* The values in a sequence.
Elems(s) == {s[k] : k \in 1 .. Len(s)}

\* C32: over istep = 0 .. ceil2(nprocs)-2, pair(nprocs, istep, me) is never
\* me, is each other rank of 0 .. nprocs-1 exactly once and -1 in the
\* remaining steps; each step is a matching (the partner's pair in that
\* step is me); and the step list of a rank holds, once each, exactly the
\* partners with a non-zero length in one direction at least, so that a
\* partner is in a rank's list iff the rank is in the partner's.
C32_PairSchedule ==
    \A me \in DOMAIN sched.istep :
        LET np == sched.nprocs
            ps == sched.pairs[me]
        IN  /\ \A k \in 1 .. Len(ps) :
                  /\ ps[k] # me
                  /\ ps[k] \in {-1} \cup (0 .. np - 1)
                  /\ ps[k] >= 0 => pair(np, k - 1, ps[k]) = me
                  /\ \A j \in 1 .. k - 1 : ps[j] >= 0 => ps[j] # ps[k]
                  /\ \A b \in DOMAIN sched.istep :
                        Len(sched.pairs[b]) >= k =>
                            (ps[k] = b <=> sched.pairs[b][k] = me)
            /\ LoopDone(me) =>
                  /\ Elems(ps) \ {-1} = (0 .. np - 1) \ {me}
                  /\ Elems(sched.swapids[me]) = Exchanging(me)
                  /\ Len(sched.swapids[me]) = Cardinality(Exchanging(me))
                  /\ \A b \in DOMAIN sched.istep :
                        LoopDone(b) =>
                            (b \in Elems(sched.swapids[me])
                                <=> me \in Elems(sched.swapids[b]))

\* Two ranks of a communicator whose size is not a power of two have left
\* the loop: one step had no partner, one rank has the other in its step
\* list and has left a third rank out.
C32_Witness ==
    /\ ceil2(sched.nprocs) > sched.nprocs
    /\ \A me \in DOMAIN sched.istep : LoopDone(me)
    /\ \E me \in DOMAIN sched.istep :
          /\ -1 \in Elems(sched.pairs[me])
          /\ \E b \in DOMAIN sched.istep \ {me} : b \in Elems(sched.swapids[me])
          /\ Elems(sched.swapids[me]) # (0 .. sched.nprocs - 1) \ {me}

\* Task t has looked up, or created, the WMB of the current PIOc_write_darray
\* call.
PastLookup(t) == Writing /\ Len(ev[t].steps) >= 1 /\ ev[t].steps[1] = "decision"

\* The entries of a chain that serve decomposition ioid and record kind rv.
Serving(chain, ioid, rv) ==
    {i \in 1 .. Len(chain) : chain[i].ioid = ioid /\ chain[i].recordvar = rv}

\* C33: the WMB chain of a file never holds two entries with the same
\* (ioid, recordvar): a PIOc_write_darray call uses the existing entry of its
\* key wherever it sits in the chain, and adds one entry, for its key, only
\* when the chain had none.
C33_OneWmbPerKey ==
    \A t \in Tasks :
        /\ \A i \in 1 .. Len(buffer[t]) :
              Serving(buffer[t], buffer[t][i].ioid, buffer[t][i].recordvar) = {i}
        /\ PastLookup(t) =>
              LET rv == IF record(cur.varid) >= 0 THEN 1 ELSE 0
                  had == Serving(pre[t].buffer, cur.ioid, rv)
              IN  /\ wmbp[t] \in Serving(buffer[t], cur.ioid, rv)
                  /\ IF had # {}
                     THEN wmbp[t] \in had /\ Len(buffer[t]) = Len(pre[t].buffer)
                     ELSE wmbp[t] = Len(buffer[t])
                          /\ Len(buffer[t]) = Len(pre[t].buffer) + 1

\* A call has reused a WMB that is neither the head nor the last entry of
\* the chain, and queued its array there.
C33_Witness ==
    \E t \in Tasks :
        /\ PastLookup(t) /\ at[t] = "idle" /\ ierr[t] = "PIO_NOERR"
        /\ 1 < wmbp[t] /\ wmbp[t] < Len(buffer[t])
        /\ Len(buffer[t]) = Len(pre[t].buffer)
        /\ buffer[t][wmbp[t]].num_arrays >= 1

\* ---------------------------------------------------------------------
\* Properties of pio_fc_gather.
\* ---------------------------------------------------------------------

\* The root is inside pio_fc_gather.
RootInCall == gpc[fc.root] \in {"loop", "post", "waitall"}

\* The peers whose receive is posted and has not been waited on.
Unwaited == {p \in Procs : recvs[p] \in {"posted", "complete"}}

\* C34: with flow_cntl > 0 the root never has more than
\* min(flow_cntl, MAX_GATHER_BLOCK_SIZE) receives posted and not yet waited
\* on, and a request slot is written again only after the receive posted in
\* it was waited on: the handle of every such receive is still in rcvid.
C34_GatherWindow ==
    fc.flow_cntl > 0 =>
        /\ Cardinality(Unwaited) <= Min(fc.flow_cntl, MAX_GATHER_BLOCK_SIZE)
        /\ RootInCall =>
              \A p \in Unwaited : \E i \in DOMAIN rcvid : rcvid[i] = ActiveReq(p)

\* C37: on the root every index of rcvid used to post or wait on a receive
\* is in 0 .. gather_block_size-1, the allocated array, and the final
\* MPI_Waitall covers exactly the slots receives were posted in.
C37_SlotsInRange ==
    fc.flow_cntl > 0 =>
        /\ \A i \in slots.posted \cup slots.waited \cup slots.waitall :
              0 <= i /\ i < gather_block_size
        /\ gpc[fc.root] = "done" => slots.waitall = slots.posted

\* Every rank has returned from pio_fc_gather.
GatherReturned == \A p \in Procs : gpc[p] = "done"

\* C38: once pio_fc_gather has returned on all ranks, the root's recvbuf
\* holds, for every rank p (the root included), rank p's sendbuf in block p
\* at displacement p * recvcnt elements, as MPI_Gather leaves it; blocks of
\* different ranks do not overlap.
C38_GatherAsMpiGather ==
    GatherReturned =>
        \A p \in Procs : \A j \in 0 .. BlockBytes - 1 :
            recvbuf[p * BlockBytes + j] = SendByte(p, j)

\* C35: when pio_swapm has returned on a rank, every data receive and every
\* ready-message receive the rank posted has been waited on: no request of
\* rcvids or hs_rcvids is still active.
C35_NoReceiveInFlight ==
    \A me \in Procs :
        Returned(me) =>
            \A i \in Procs : /\ rcvids[me][i].st # "posted"
                             /\ hs_rcvids[me][i].st # "posted"

\* C36: when all ranks call pio_swapm with mutually consistent lengths,
\* every rank eventually returns, whatever handshake, isend and max_requests
\* are.
C36_AllReturn == <>(\A me \in Procs : Returned(me))

\* In SpecSwapm a rank is blocked for ever only after an erroneous
\* ready-send: in every state some rank can take a step, or all ranks have
\* returned, or a ready-send was started with no matching receive posted.
BlockedOnlyAfterRsendErr ==
    \/ \A me \in Procs : Returned(me)
    \/ rsend_err
    \/ ENABLED NextSwapm

\* Task t holds a queued array of variable v in one of its WMBs.
HasQueued(t, v) ==
    \E i \in 1 .. Len(buffer[t]) : \E k \in 1 .. Len(buffer[t][i].ent) :
        buffer[t][i].ent[k].varid = v

\* C39: between calls, on every task, the file's pending-byte counter is
\* the sum of the variables' counters, and a variable's counter is non-zero
\* exactly when arrays of the variable are queued, appended since its last
\* completed write.
C39_PendingBytes ==
    AllIdle =>
        \A t \in Tasks :
            /\ wb_pend[t] = SetSum([v \in VarIds |-> vdesc[t][v].wb_pend], VarIds)
            /\ \A v \in VarIds : vdesc[t][v].wb_pend # 0 <=> HasQueued(t, v)

---------------------------------------------------------------------------
\* The parameter broadcasts of an async IO system

\* The order of the MPI calls of the block.
ClaimedOrder ==
    << "msg", "ncid", "nvars", "varids", "ioid", "arraylen", "array",
       "frame_present", "frame", "fillvalue_present", "fillvalue",
       "flushtodisk", "mpierr", "fndims" >>

\* Task t makes call x when no call fails: the message tag is sent by the
\* root of the computation component, the parameters by the compute tasks,
\* frame and fillvalue only when they are passed; every task takes part in
\* the broadcasts of mpierr and fndims.
Applies(x, t, a) ==
    CASE x = "msg" -> compmaster(t)
      [] x \in {"mpierr", "fndims"} -> TRUE
      [] x = "frame" -> ~ioproc(t) /\ a.frame # << >>
      [] x = "fillvalue" -> ~ioproc(t) /\ a.fillvalue # << >>
      [] OTHER -> ~ioproc(t)

ExpectedCalls(t) == SelectSeq(ClaimedOrder, LAMBDA x : Applies(x, t, CurArgs(t)))

\* Task t is past the parameter block of an accepted call.
PastBlock(t) == Multi /\ at[t] # "async" /\ ev[t].steps # << >>

\* The calls of ExpectedCalls(t) that hand over a parameter.
ExpectedParams(t) ==
    SelectSeq(ExpectedCalls(t), LAMBDA x : x \notin {"mpierr", "fndims"})

\* The calls that end the block on task t: the broadcast of mpierr, and the
\* broadcast of fndims unless the task returns the MPI error.
BlockEnd(t) ==
    IF ierr[t] = "PIO_EIO" THEN << "mpierr" >> ELSE << "mpierr", "fndims" >>

\* C27: on an async system a compute task that enters
\* PIOc_write_darray_multi sends, after the message tag, the broadcasts of
\* ncid, nvars, varids, ioid, arraylen, the array, frame_present, frame (if
\* passed), fillvalue_present, fillvalue (if passed) and flushtodisk in this
\* order; fndims is broadcast after them, and the I/O task has taken part
\* in that broadcast when the rearrangement starts.  When one of the calls
\* of the task fails the later parameter calls are left out.
C27_AsyncOrder ==
    \A t \in Tasks :
        PastBlock(t) =>
            /\ \E k \in 0 .. Len(ExpectedParams(t)) :
                  /\ ev[t].steps = SubSeq(ExpectedParams(t), 1, k) \o BlockEnd(t)
                  /\ "bcast" \notin ev[t].failed => k = Len(ExpectedParams(t))
            /\ ev[t].rearr >= 1 =>
                  ev[t].steps[Len(ev[t].steps)] = "fndims"

\* A call that passes frame and fillvalue has succeeded on every task; the
\* root of the computation component made all fourteen calls, and the I/O
\* task received fndims and rearranged.
C27_Witness ==
    /\ Multi /\ \A t \in Tasks : MultiSucceeded(t) /\ PastBlock(t)
    /\ ev[comproot].steps = ClaimedOrder
    /\ \E t \in Tasks : ioproc(t) /\ ev[t].rearr = 1
                        /\ ev[t].steps = << "mpierr", "fndims" >>
=============================================================================
